---------------------------- MODULE Spec2Model ----------------------------
(***************************************************************************)
(* Alignment core of the TR / N1904 pipeline:                              *)
(*   scripts/phase2/p2_02_align_verses.py   key builder, verse aligner     *)
(*   scripts/phase2/p2_04_full_alignment.py corpus aligner                 *)
(*   scripts/phase2/p2_05_build_id_map.py   ID translator                  *)
(*                                                                         *)
(* Text is a sequence of code points.  Python indices are kept 0-based and *)
(* half-open as in the source; element i of a Python list l is l[i + 1].   *)
(***************************************************************************)
EXTENDS Integers, Sequences, FiniteSets, TLC

VARIABLES
    pc,                 \* position of the running script
    tr_words,           \* align_verse_words: argument tr_words
    n1904_words,        \* align_verse_words: argument n1904_words
    alignments,         \* align_verse_words: returned list of (tr_idx, n1904_idx)
    tr_gaps,            \* align_verse_words: returned TR gap indices
    n1904_gaps,         \* align_verse_words: returned N1904 gap indices
    tr_df,              \* TR words table (rows in file order)
    n1904_df,           \* N1904 words table (rows in file order)
    book_i,             \* run_full_alignment: position in tr_books
    common_todo,        \* run_full_alignment: common verses not yet iterated
    tr_only_todo,       \* run_full_alignment: TR-only verses not yet iterated
    book_alignments,    \* run_full_alignment: per-book counter
    book_tr_gaps,       \* run_full_alignment: per-book counter
    alignment_records,  \* run_full_alignment: list (alignment_map.parquet)
    gap_records,        \* run_full_alignment: list (gaps.csv)
    book_stats,         \* run_full_alignment: dict tr_book -> statistics
    stats,              \* run_full_alignment: returned overall statistics
    aligner_calls,      \* verses for which align_verse_words was called
    id_translation,     \* build_id_translation: returned table
    result,             \* transplant_syntax: returned table
    broken_refs,        \* p2_06 main: broken parent references counted
    span_records,       \* group_gaps_into_spans: returned table
    files,              \* the files present in data/intermediate and reports
    outcomes,           \* one record per run of a step's main
    key_criteria,       \* create_word_key: the match_criteria argument
    keys                \* create_word_key: the keys returned for two rows

vars == <<pc, tr_words, n1904_words, alignments, tr_gaps, n1904_gaps,
          tr_df, n1904_df, book_i, common_todo, tr_only_todo,
          book_alignments, book_tr_gaps, alignment_records, gap_records,
          book_stats, stats, aligner_calls, id_translation,
          result, broken_refs, span_records, files, outcomes,
          key_criteria, keys>>

\* the variables of the transplant and gap analysis steps
later_steps ==
    <<result, broken_refs, span_records, files, outcomes, key_criteria, keys>>

(***************************************************************************)
(* Bounds of the model.                                                    *)
(***************************************************************************)
MaxTrLen == 3
MaxN1904Len == 4
MaxSrc == 2
MaxRef == 1
MaxAlign == 3

(***************************************************************************)
(* Generic helpers on sequences.                                           *)
(***************************************************************************)
SeqsUpTo(S, n) == UNION {[1..k -> S] : k \in 0..n}

Range(s) == {s[k] : k \in 1..Len(s)}

RECURSIVE Flatten(_)
Flatten(ss) == IF ss = <<>> THEN <<>> ELSE Head(ss) \o Flatten(Tail(ss))

Max(S) == CHOOSE x \in S : \A y \in S : y <= x
Min(S) == CHOOSE x \in S : \A y \in S : x <= y

(***************************************************************************)
(* Key builder (p2_02_align_verses.py).                                    *)
(* Code points of the model: a plain letter, alpha with tonos (U+03AC),    *)
(* alpha with oxia (U+1F71, canonically equivalent to U+03AC), and the     *)
(* decomposed pair alpha (U+03B1) + combining acute (U+0301).              *)
(***************************************************************************)
LETTER_LAMBDA == "U03BB"
ALPHA == "U03B1"
ACUTE == "U0301"
ALPHA_TONOS == "U03AC"
ALPHA_OXIA == "U1F71"
SEP == "|"

\* unicodedata.normalize("NFC", text): singleton canonical mapping and
\* canonical composition of base letter + combining mark
RECURSIVE NFC(_)
NFC(text) ==
    IF text = <<>> THEN <<>>
    ELSE IF Len(text) >= 2 /\ text[1] = ALPHA /\ text[2] = ACUTE
         THEN <<ALPHA_TONOS>> \o NFC(SubSeq(text, 3, Len(text)))
    ELSE IF text[1] = ALPHA_OXIA
         THEN <<ALPHA_TONOS>> \o NFC(Tail(text))
    ELSE <<text[1]>> \o NFC(Tail(text))

normalize_unicode(text) ==
    IF text = <<>> THEN <<>> ELSE NFC(text)

\* "|".join(parts)
RECURSIVE Join(_)
Join(parts) ==
    IF parts = <<>> THEN <<>>
    ELSE IF Len(parts) = 1 THEN parts[1]
    ELSE parts[1] \o <<SEP>> \o Join(Tail(parts))

\* row.get(criterion, "") ; the empty text is falsy
RowGet(row, criterion) ==
    IF criterion \in DOMAIN row THEN row[criterion] ELSE <<>>

\* faulty variant: the value is used as it is stored
KeyPart_raw(row, criterion) == RowGet(row, criterion)

KeyPart(row, criterion) ==
    IF RowGet(row, criterion) # <<>>
    THEN normalize_unicode(RowGet(row, criterion)) ELSE <<>>

create_word_key(row, criteria) ==
    Join([c \in 1..Len(criteria) |-> KeyPart(row, criteria[c])])

\* config["alignment"]["match_criteria"]
match_criteria == <<"word">>

(***************************************************************************)
(* difflib.SequenceMatcher(None, a, b) as used by align_verse_words.       *)
(* No junk predicate is given; the automatic junk heuristic (autojunk, on   *)
(* by default) acts on a second sequence of 200 or more elements.          *)
(***************************************************************************)
\* length of the common run of a[i:ahi] and b[j:bhi] starting at (i, j)
RECURSIVE RunLen(_, _, _, _, _, _)
RunLen(a, b, i, j, ahi, bhi) ==
    IF i < ahi /\ j < bhi /\ a[i + 1] = b[j + 1]
    THEN 1 + RunLen(a, b, i + 1, j + 1, ahi, bhi)
    ELSE 0

\* __chain_b: with 200 or more elements in b, the elements that occur more
\* than len(b) // 100 + 1 times are "popular" and are dropped from b2j
\* faulty variant: the heuristic is applied to a sequence of any length
bpopular_any_length(b, elt) ==
    Cardinality({n \in 1..Len(b) : b[n] = elt}) > (Len(b) \div 100) + 1

bpopular(b, elt) ==
    /\ Len(b) >= 200
    /\ Cardinality({n \in 1..Len(b) : b[n] = elt}) > (Len(b) \div 100) + 1

\* length of the run of equal elements of a and b from (i, j) on that b2j
\* sees: it ends before a popular element
\* faulty variant: the elements are not compared
IndexedRunLen_unchecked(a, b, i, j, ahi, bhi) ==
    IF i < ahi /\ j < bhi THEN 1 ELSE 0

RECURSIVE IndexedRunLen(_, _, _, _, _, _)
IndexedRunLen(a, b, i, j, ahi, bhi) ==
    IF i < ahi /\ j < bhi /\ a[i + 1] = b[j + 1] /\ ~bpopular(b, b[j + 1])
    THEN 1 + IndexedRunLen(a, b, i + 1, j + 1, ahi, bhi)
    ELSE 0

\* "while besti > alo and bestj > blo and a[besti-1] == b[bestj-1]": the
\* number of equal elements before (i, j) inside the window
RECURSIVE RunLenBefore(_, _, _, _, _, _)
RunLenBefore(a, b, i, j, alo, blo) ==
    IF i > alo /\ j > blo /\ a[i] = b[j]
    THEN 1 + RunLenBefore(a, b, i - 1, j - 1, alo, blo)
    ELSE 0

\* the main loop of find_longest_match: the longest block a[i:i+k] ==
\* b[j:j+k] of indexed elements inside the window; of those the one starting
\* earliest in a, and of those the one starting earliest in b (the scan keeps
\* the first block that reaches a new best size: "if k > bestsize")
longest_indexed_block(a, b, alo, ahi, blo, bhi) ==
    LET cells == (alo..(ahi - 1)) \X (blo..(bhi - 1))
        size(p) == IndexedRunLen(a, b, p[1], p[2], ahi, bhi)
        bestsize == IF cells = {} THEN 0 ELSE Max({size(p) : p \in cells})
    IN  IF bestsize = 0 THEN <<alo, blo, 0>>
        ELSE LET best == {p \in cells : size(p) = bestsize}
                 besti == Min({p[1] : p \in best})
                 bestj == Min({p[2] : p \in {q \in best : q[1] = besti}})
             IN  <<besti, bestj, bestsize>>

\* the two extension loops of find_longest_match without junk: equal
\* elements before and after the block are added, popular ones included
extended_block(a, b, alo, ahi, blo, bhi, x) ==
    LET before == RunLenBefore(a, b, x[1], x[2], alo, blo)
        after == RunLen(a, b, x[1] + x[3], x[2] + x[3], ahi, bhi)
    IN  <<x[1] - before, x[2] - before, before + x[3] + after>>

\* faulty variant: the run length is not accumulated, every match has size 1
find_longest_match_unit(a, b, alo, ahi, blo, bhi) ==
    LET hits == {p \in (alo..(ahi - 1)) \X (blo..(bhi - 1)) :
                    a[p[1] + 1] = b[p[2] + 1]}
    IN  IF hits = {} THEN <<alo, blo, 0>>
        ELSE LET besti == Min({p[1] : p \in hits})
                 bestj == Min({p[2] : p \in {q \in hits : q[1] = besti}})
             IN  <<besti, bestj, 1>>

\* find_longest_match(alo, ahi, blo, bhi): the longest indexed block, or
\* the empty block at (alo, blo), extended on both ends (there is no junk:
\* isjunk is None)
find_longest_match(a, b, alo, ahi, blo, bhi) ==
    extended_block(a, b, alo, ahi, blo, bhi,
                   longest_indexed_block(a, b, alo, ahi, blo, bhi))

\* faulty variant: the right-hand window restarts at blo instead of j + k
RECURSIVE queue_blocks_rewind(_, _, _, _, _, _)
queue_blocks_rewind(a, b, alo, ahi, blo, bhi) ==
    LET x == find_longest_match(a, b, alo, ahi, blo, bhi)
        i == x[1]
        j == x[2]
        k == x[3]
    IN  IF k = 0 THEN <<>>
        ELSE (IF alo < i /\ blo < j
              THEN queue_blocks_rewind(a, b, alo, i, blo, j) ELSE <<>>)
             \o <<x>> \o
             (IF i + k < ahi /\ blo < j
              THEN queue_blocks_rewind(a, b, i + k, ahi, blo, j) ELSE <<>>)

\* the work queue of get_matching_blocks followed by matching_blocks.sort():
\* blocks left of the match, the match, blocks right of it
RECURSIVE queue_blocks(_, _, _, _, _, _)
queue_blocks(a, b, alo, ahi, blo, bhi) ==
    LET x == find_longest_match(a, b, alo, ahi, blo, bhi)
        i == x[1]
        j == x[2]
        k == x[3]
    IN  IF k = 0 THEN <<>>
        ELSE (IF alo < i /\ blo < j
              THEN queue_blocks(a, b, alo, i, blo, j) ELSE <<>>)
             \o <<x>> \o
             (IF i + k < ahi /\ j + k < bhi
              THEN queue_blocks(a, b, i + k, ahi, j + k, bhi) ELSE <<>>)

\* collapse of adjacent equal blocks: (i1, j1, k1) carried, next block b2
RECURSIVE collapse(_, _)
collapse(cur, blocks) ==
    IF blocks = <<>> THEN (IF cur[3] > 0 THEN <<cur>> ELSE <<>>)
    ELSE LET nxt == Head(blocks)
         IN  IF cur[1] + cur[3] = nxt[1] /\ cur[2] + cur[3] = nxt[2]
             THEN collapse(<<cur[1], cur[2], cur[3] + nxt[3]>>, Tail(blocks))
             ELSE (IF cur[3] > 0 THEN <<cur>> ELSE <<>>)
                  \o collapse(nxt, Tail(blocks))

\* get_matching_blocks(): sorted, collapsed, terminated by (la, lb, 0)
get_matching_blocks(a, b) ==
    collapse(<<0, 0, 0>>, queue_blocks(a, b, 0, Len(a), 0, Len(b)))
    \o <<<<Len(a), Len(b), 0>>>>

(***************************************************************************)
(* Verse aligner: align_verse_words (p2_02_align_verses.py).               *)
(***************************************************************************)
\* for i in range(size): alignments.append((tr_start + i, n1904_start + i))
\* faulty variant: only the first position of a block is paired
block_pairs_first(block) ==
    [n \in 1..Min({1, block[3]}) |-> <<block[1] + n - 1, block[2] + n - 1>>]

block_pairs(block) ==
    [n \in 1..block[3] |-> <<block[1] + n - 1, block[2] + n - 1>>]

\* [i for i in range(n) if i not in matched], here for the indices from i
\* on; the range is halved so that a long verse is evaluated at small depth
RECURSIVE gap_indices(_, _, _)
gap_indices(i, n, matched) ==
    IF i >= n THEN <<>>
    ELSE IF n - i = 1 THEN (IF i \in matched THEN <<>> ELSE <<i>>)
    ELSE LET m == (i + n) \div 2
         IN  gap_indices(i, m, matched) \o gap_indices(m, n, matched)

\* faulty variant: the last index is never reported as a gap
gap_list_short(n, matched) == gap_indices(0, n - 1, matched)

gap_list(n, matched) == gap_indices(0, n, matched)

align_verse_words(trw, n1904w, criteria) ==
    LET tr_keys == [k \in 1..Len(trw) |-> create_word_key(trw[k], criteria)]
        n1904_keys == [k \in 1..Len(n1904w) |-> create_word_key(n1904w[k], criteria)]
        blocks == get_matching_blocks(tr_keys, n1904_keys)
        pairs == Flatten([n \in 1..Len(blocks) |-> block_pairs(blocks[n])])
        tr_matched == {p[1] : p \in Range(pairs)}
        n1904_matched == {p[2] : p \in Range(pairs)}
    IN  [alignments |-> pairs,
         tr_gaps |-> gap_list(Len(trw), tr_matched),
         n1904_gaps |-> gap_list(Len(n1904w), n1904_matched)]

(***************************************************************************)
(* Specification SpecAlign: align_verse_words applied to every pair of     *)
(* word lists within the bounds.                                           *)
(***************************************************************************)
\* the files the steps read and write (config paths.data.intermediate and
\* paths.reports)
TR_WORDS == "tr_words.parquet"
N1904_WORDS == "n1904_words.parquet"
ALIGNMENT_MAP == "alignment_map.parquet"
GAPS == "gaps.csv"
ID_TRANSLATION == "id_translation.parquet"
TR_TRANSPLANTED == "tr_transplanted.parquet"
GAP_SPANS == "gap_spans.parquet"
ALIGNMENT_REPORT == "alignment_report.md"
GAP_REPORT == "gap_analysis_report.md"

\* the files some step reads
InputFiles == {TR_WORDS, N1904_WORDS, ALIGNMENT_MAP, GAPS, ID_TRANSLATION}

WordForms == {<<LETTER_LAMBDA>>, <<ALPHA_TONOS>>, <<ALPHA_OXIA>>}

WordRows == [word : WordForms]

NoResult == <<>>

InitAlign ==
    /\ pc = "align_call"
    /\ tr_words \in SeqsUpTo(WordRows, MaxTrLen)
    /\ n1904_words \in SeqsUpTo(WordRows, MaxN1904Len)
    /\ alignments = NoResult
    /\ tr_gaps = NoResult
    /\ n1904_gaps = NoResult
    /\ tr_df = <<>>
    /\ n1904_df = <<>>
    /\ book_i = 0
    /\ common_todo = {}
    /\ tr_only_todo = {}
    /\ book_alignments = 0
    /\ book_tr_gaps = 0
    /\ alignment_records = <<>>
    /\ gap_records = <<>>
    /\ book_stats = <<>>
    /\ stats = <<>>
    /\ aligner_calls = {}
    /\ id_translation = <<>>
    /\ result = <<>>
    /\ broken_refs = 0
    /\ span_records = <<>>
    /\ key_criteria = match_criteria
    /\ keys = <<>>
    /\ files = InputFiles
    /\ outcomes = <<>>

AlignVerseWords ==
    /\ pc = "align_call"
    /\ LET r == align_verse_words(tr_words, n1904_words, match_criteria)
       IN  /\ alignments' = r.alignments
           /\ tr_gaps' = r.tr_gaps
           /\ n1904_gaps' = r.n1904_gaps
    /\ pc' = "align_done"
    /\ UNCHANGED <<tr_words, n1904_words, tr_df, n1904_df, book_i,
                   common_todo, tr_only_todo, book_alignments, book_tr_gaps,
                   alignment_records, gap_records, book_stats, stats,
                   aligner_calls, id_translation>>
    /\ UNCHANGED later_steps

NextAlign == AlignVerseWords

SpecAlign == InitAlign /\ [][NextAlign]_vars

(***************************************************************************)
(* Specification SpecLongVerse: align_verse_words applied to a reference   *)
(* verse of 199 or 200 words in which one key occurs five times, the       *)
(* lengths on either side of the automatic junk heuristic of difflib.      *)
(***************************************************************************)
FillerLetters == <<LETTER_LAMBDA, ALPHA, ALPHA_TONOS>>

\* 81 distinct four-letter words
Filler(n) ==
    [d \in 1..4 |->
        FillerLetters[((n \div (IF d = 1 THEN 27 ELSE IF d = 2 THEN 9
                                 ELSE IF d = 3 THEN 3 ELSE 1)) % 3) + 1]]

LongVerseLengths == {199, 200}

LongVerseStarts == 1..3

\* a reference verse in which the word form recurs every 40 words from
\* start on and every other word occurs at most three times
LongReference(len, start, form) ==
    [k \in 1..len |->
        [word |-> IF k >= start /\ (k - start) % 40 = 0
                  THEN form ELSE Filler(k % 81)]]

LongVerseSourceRows == [word : {Filler(2), <<ALPHA_TONOS>>}]

InitLongVerse ==
    /\ pc = "align_call"
    /\ tr_words \in SeqsUpTo(LongVerseSourceRows, MaxTrLen)
    /\ \E len \in LongVerseLengths, start \in LongVerseStarts,
          form \in {<<ALPHA_TONOS>>, <<ALPHA_OXIA>>} :
            n1904_words = LongReference(len, start, form)
    /\ alignments = NoResult
    /\ tr_gaps = NoResult
    /\ n1904_gaps = NoResult
    /\ tr_df = <<>>
    /\ n1904_df = <<>>
    /\ book_i = 0
    /\ common_todo = {}
    /\ tr_only_todo = {}
    /\ book_alignments = 0
    /\ book_tr_gaps = 0
    /\ alignment_records = <<>>
    /\ gap_records = <<>>
    /\ book_stats = <<>>
    /\ stats = <<>>
    /\ aligner_calls = {}
    /\ id_translation = <<>>
    /\ result = <<>>
    /\ broken_refs = 0
    /\ span_records = <<>>
    /\ key_criteria = match_criteria
    /\ keys = <<>>
    /\ files = InputFiles
    /\ outcomes = <<>>

NextLongVerse == AlignVerseWords

SpecLongVerse == InitLongVerse /\ [][NextLongVerse]_vars

\* key sequences of the two arguments, as the claims speak of them
TrKeys == [k \in 1..Len(tr_words) |-> create_word_key(tr_words[k], match_criteria)]
N1904Keys == [k \in 1..Len(n1904_words) |-> create_word_key(n1904_words[k], match_criteria)]

PairSet == Range(alignments)

\* length of a longest common subsequence of a[i..] and b[j..] (1-based)
RECURSIVE LCSFrom(_, _, _, _)
LCSFrom(a, b, i, j) ==
    IF i > Len(a) \/ j > Len(b) THEN 0
    ELSE IF a[i] = b[j] THEN 1 + LCSFrom(a, b, i + 1, j + 1)
    ELSE LET skipa == LCSFrom(a, b, i + 1, j)
             skipb == LCSFrom(a, b, i, j + 1)
         IN  IF skipa >= skipb THEN skipa ELSE skipb

LCSLen(a, b) == LCSFrom(a, b, 1, 1)

\* length of a longest common contiguous block of a and b
LongestBlockLen(a, b) ==
    Max({0} \cup {RunLen(a, b, i, j, Len(a), Len(b)) :
                    i \in 0..(Len(a) - 1), j \in 0..(Len(b) - 1)})

\* C2: pairs returned by align_verse_words never cross: for two pairs
\* (i1, j1), (i2, j2), i1 < i2 implies j1 < j2.
C2_OrderPreserved ==
    pc = "align_done" =>
        \A p \in PairSet, q \in PairSet : p[1] < q[1] => p[2] < q[2]

\* two pairs from different matching blocks, and a repeated key that a
\* crossing match could have used
C2_Witness ==
    /\ pc = "align_done"
    /\ \E p \in PairSet, q \in PairSet :
          /\ p[1] < q[1]
          /\ q[1] - p[1] # q[2] - p[2]
    /\ \E i \in 1..Len(TrKeys), j \in 1..Len(N1904Keys) :
          /\ TrKeys[i] = N1904Keys[j]
          /\ \E p \in PairSet : i - 1 > p[1] /\ j - 1 < p[2]

\* C3 (as stated): the number of pairs equals the length of a longest
\* common subsequence of the two key sequences.
C3_PairsAreLCS ==
    pc = "align_done" => Len(alignments) = LCSLen(TrKeys, N1904Keys)

\* C3 (amended): the pairs are a common subsequence, so there are at most
\* LCS-length many of them, and (for reference verses below the 200-word
\* threshold of the automatic junk heuristic) at least as many as the
\* longest common contiguous block is long.
C3_PairsBetweenBlockAndLCS ==
    pc = "align_done" =>
        /\ Len(alignments) <= LCSLen(TrKeys, N1904Keys)
        /\ Len(alignments) >= LongestBlockLen(TrKeys, N1904Keys)

\* an alignment strictly shorter than the longest common subsequence
C3_Witness ==
    /\ pc = "align_done"
    /\ Len(alignments) >= 2
    /\ Len(alignments) < LCSLen(TrKeys, N1904Keys)

\* C4: on each side the indices in pairs and the indices in the gap list
\* are disjoint and together are exactly 0..len-1.
C4_TotalPartition ==
    pc = "align_done" =>
        /\ {p[1] : p \in PairSet} \cap Range(tr_gaps) = {}
        /\ {p[1] : p \in PairSet} \cup Range(tr_gaps) = 0..(Len(tr_words) - 1)
        /\ {p[2] : p \in PairSet} \cap Range(n1904_gaps) = {}
        /\ {p[2] : p \in PairSet} \cup Range(n1904_gaps) = 0..(Len(n1904_words) - 1)

\* pairs and gaps on both sides, the last index of each side being a gap
C4_Witness ==
    /\ pc = "align_done"
    /\ alignments # <<>>
    /\ Len(tr_words) - 1 \in Range(tr_gaps)
    /\ Len(n1904_words) - 1 \in Range(n1904_gaps)

(***************************************************************************)
(* Corpus aligner: run_full_alignment (p2_04_full_alignment.py).           *)
(***************************************************************************)
BOOK_NAME_MAP ==
    [name \in {"MAT", "MAR", "LUK", "JHN", "ACT", "ROM", "1CO", "2CO", "GAL",
               "EPH", "PHP", "COL", "1TH", "2TH", "1TI", "2TI", "TIT", "PHM",
               "HEB", "JAS", "1PE", "2PE", "1JN", "2JN", "3JN", "JUD", "REV",
               "JOH", "JAM", "1JO", "2JO", "3JO", "PA", "ACT24"} |->
        CASE name = "MAT" -> "Matthew"
          [] name = "MAR" -> "Mark"
          [] name = "LUK" -> "Luke"
          [] name \in {"JHN", "JOH", "PA"} -> "John"
          [] name \in {"ACT", "ACT24"} -> "Acts"
          [] name = "ROM" -> "Romans"
          [] name = "1CO" -> "I_Corinthians"
          [] name = "2CO" -> "II_Corinthians"
          [] name = "GAL" -> "Galatians"
          [] name = "EPH" -> "Ephesians"
          [] name = "PHP" -> "Philippians"
          [] name = "COL" -> "Colossians"
          [] name = "1TH" -> "I_Thessalonians"
          [] name = "2TH" -> "II_Thessalonians"
          [] name = "1TI" -> "I_Timothy"
          [] name = "2TI" -> "II_Timothy"
          [] name = "TIT" -> "Titus"
          [] name = "PHM" -> "Philemon"
          [] name = "HEB" -> "Hebrews"
          [] name \in {"JAS", "JAM"} -> "James"
          [] name = "1PE" -> "I_Peter"
          [] name = "2PE" -> "II_Peter"
          [] name \in {"1JN", "1JO"} -> "I_John"
          [] name \in {"2JN", "2JO"} -> "II_John"
          [] name \in {"3JN", "3JO"} -> "III_John"
          [] name = "JUD" -> "Jude"
          [] name = "REV" -> "Revelation"]

\* BOOK_NAME_MAP.get(name, name)
normalize_book_name(name) ==
    IF name \in DOMAIN BOOK_NAME_MAP THEN BOOK_NAME_MAP[name] ELSE name

\* Series.unique(): distinct values in order of first appearance
RECURSIVE UniqueFrom(_, _)
UniqueFrom(s, seen) ==
    IF s = <<>> THEN <<>>
    ELSE IF Head(s) \in seen THEN UniqueFrom(Tail(s), seen)
    ELSE <<Head(s)>> \o UniqueFrom(Tail(s), seen \cup {Head(s)})

Unique(s) == UniqueFrom(s, {})

\* tr_df["book"].unique()
tr_books == Unique([k \in 1..Len(tr_df) |-> tr_df[k].book])

\* the book of the current iteration of "for tr_book in tr_books"
tr_book == tr_books[book_i + 1]

\* df[df["book"] == book]
BookRows(df, book) == SelectSeq(df, LAMBDA r : r.book = book)

tr_book_df == BookRows(tr_df, tr_book)

n1904_book_df == BookRows(n1904_df, normalize_book_name(tr_book))

\* df[(df["chapter"] == chapter) & (df["verse"] == verse)].to_dict("records")
VerseRows(df, cv) == SelectSeq(df, LAMBDA r : r.chapter = cv[1] /\ r.verse = cv[2])

\* set(zip(df["chapter"], df["verse"]))
VerseSet(df) == {<<df[k].chapter, df[k].verse>> : k \in 1..Len(df)}

\* faulty variant: every TR verse is treated as common
common_verses_all(tr_verses, n1904_verses) == tr_verses

\* common_verses = tr_verses & n1904_verses
common_verses(tr_verses, n1904_verses) == tr_verses \cap n1904_verses

\* faulty variant: the difference is forgotten
tr_only_verses_all(tr_verses, n1904_verses) == tr_verses

\* tr_only_verses = tr_verses - n1904_verses
tr_only_verses(tr_verses, n1904_verses) == tr_verses \ n1904_verses

\* faulty variant: the rank within the verse is stored as the word id
GapRecord_rank_as_id(row, gap_type) ==
    [word_id |-> row.word_rank, book |-> row.book, chapter |-> row.chapter,
     verse |-> row.verse, word_rank |-> row.word_rank, word |-> row.word,
     gap_type |-> gap_type]

\* the gap record appended for a TR row
GapRecord(row, gap_type) ==
    [word_id |-> row.word_id, book |-> row.book, chapter |-> row.chapter,
     verse |-> row.verse, word_rank |-> row.word_rank, word |-> row.word,
     gap_type |-> gap_type]

\* the alignment record appended for an aligned pair of rows
AlignmentRecord(tr_word, n1904_word) ==
    [tr_word_id |-> tr_word.word_id, n1904_node_id |-> n1904_word.node_id,
     book |-> tr_word.book, chapter |-> tr_word.chapter,
     verse |-> tr_word.verse, tr_word_rank |-> tr_word.word_rank,
     n1904_word_rank |-> n1904_word.word_rank, tr_word |-> tr_word.word]

\* faulty variant: the words of a book without reference data are dropped
missing_book_gaps_none(book_df) == <<>>

\* lines 94-103: every row of the book becomes a "no_n1904_book" gap
missing_book_gaps(book_df) ==
    [k \in 1..Len(book_df) |-> GapRecord(book_df[k], "no_n1904_book")]

\* faulty variant: the words of a TR-only verse are recorded as unmatched
tr_only_gaps_unmatched(verse_df) ==
    [k \in 1..Len(verse_df) |-> GapRecord(verse_df[k], "unmatched")]

\* lines 162-176: every row of a TR-only verse becomes a "tr_only_verse" gap
tr_only_gaps(verse_df) ==
    [k \in 1..Len(verse_df) |-> GapRecord(verse_df[k], "tr_only_verse")]

\* faulty variant: the rate is left as a fraction of one
Rate_fraction(aligned, total) ==
    IF total > 0 THEN [num |-> aligned, den |-> total]
    ELSE [num |-> 0, den |-> 1]

\* aligned / total * 100 as an exact fraction, 0 for an empty table
Rate(aligned, total) ==
    IF total > 0 THEN [num |-> aligned * 100, den |-> total]
    ELSE [num |-> 0, den |-> 1]

\* lines 84-104: a book without N1904 rows; the loop continues with the next
\* book before any statistics are stored
BookMissing ==
    /\ pc = "books"
    /\ book_i < Len(tr_books)
    /\ Len(n1904_book_df) = 0
    /\ gap_records' = gap_records \o missing_book_gaps(tr_book_df)
    /\ book_i' = book_i + 1
    /\ UNCHANGED <<pc, tr_words, n1904_words, alignments, tr_gaps, n1904_gaps,
                   tr_df, n1904_df, common_todo, tr_only_todo,
                   book_alignments, book_tr_gaps, alignment_records,
                   book_stats, stats, aligner_calls, id_translation>>
    /\ UNCHANGED later_steps

\* lines 84-112: a book with N1904 rows; verse sets and counters are set up
BookBegin ==
    /\ pc = "books"
    /\ book_i < Len(tr_books)
    /\ Len(n1904_book_df) # 0
    /\ common_todo' = common_verses(VerseSet(tr_book_df), VerseSet(n1904_book_df))
    /\ tr_only_todo' = tr_only_verses(VerseSet(tr_book_df), VerseSet(n1904_book_df))
    /\ book_alignments' = 0
    /\ book_tr_gaps' = 0
    /\ pc' = "verses"
    /\ UNCHANGED <<tr_words, n1904_words, alignments, tr_gaps, n1904_gaps,
                   tr_df, n1904_df, book_i, alignment_records, gap_records,
                   book_stats, stats, aligner_calls, id_translation>>
    /\ UNCHANGED later_steps

\* lines 115-158: one iteration of "for chapter, verse in common_verses";
\* the iteration order of the set is not fixed by the program text
AlignCommonVerse ==
    /\ pc = "verses"
    /\ \E cv \in common_todo :
        LET tr_verse == VerseRows(tr_book_df, cv)
            n1904_verse == VerseRows(n1904_book_df, cv)
            r == align_verse_words(tr_verse, n1904_verse, match_criteria)
        IN  /\ alignment_records' = alignment_records \o
                 [k \in 1..Len(r.alignments) |->
                     AlignmentRecord(tr_verse[r.alignments[k][1] + 1],
                                     n1904_verse[r.alignments[k][2] + 1])]
            /\ gap_records' = gap_records \o
                 [k \in 1..Len(r.tr_gaps) |->
                     GapRecord(tr_verse[r.tr_gaps[k] + 1], "unmatched")]
            /\ book_alignments' = book_alignments + Len(r.alignments)
            /\ book_tr_gaps' = book_tr_gaps + Len(r.tr_gaps)
            /\ aligner_calls' = aligner_calls \cup {<<tr_book, cv>>}
            /\ common_todo' = common_todo \ {cv}
    /\ UNCHANGED <<pc, tr_words, n1904_words, alignments, tr_gaps, n1904_gaps,
                   tr_df, n1904_df, book_i, tr_only_todo, book_stats, stats,
                   id_translation>>
    /\ UNCHANGED later_steps

\* lines 160-176: one iteration of "for chapter, verse in tr_only_verses"
TrOnlyVerse ==
    /\ pc = "verses"
    /\ common_todo = {}
    /\ \E cv \in tr_only_todo :
        LET tr_verse == VerseRows(tr_book_df, cv)
        IN  /\ gap_records' = gap_records \o tr_only_gaps(tr_verse)
            /\ book_tr_gaps' = book_tr_gaps + Len(tr_verse)
            /\ tr_only_todo' = tr_only_todo \ {cv}
    /\ UNCHANGED <<pc, tr_words, n1904_words, alignments, tr_gaps, n1904_gaps,
                   tr_df, n1904_df, book_i, common_todo, book_alignments,
                   alignment_records, book_stats, stats, aligner_calls,
                   id_translation>>
    /\ UNCHANGED later_steps

\* lines 178-185: the statistics of the book are stored
BookStats ==
    /\ pc = "verses"
    /\ common_todo = {}
    /\ tr_only_todo = {}
    /\ book_stats' = (tr_book :>
            [tr_words |-> Len(tr_book_df),
             n1904_words |-> Len(n1904_book_df),
             alignments |-> book_alignments,
             gaps |-> book_tr_gaps,
             alignment_rate |-> Rate(book_alignments, Len(tr_book_df))])
          @@ book_stats
    /\ book_i' = book_i + 1
    /\ pc' = "books"
    /\ UNCHANGED <<tr_words, n1904_words, alignments, tr_gaps, n1904_gaps,
                   tr_df, n1904_df, common_todo, tr_only_todo,
                   book_alignments, book_tr_gaps, alignment_records,
                   gap_records, stats, aligner_calls, id_translation>>
    /\ UNCHANGED later_steps

\* lines 187-200: overall statistics, return
OverallStats ==
    /\ pc = "books"
    /\ book_i = Len(tr_books)
    /\ stats' = [total_tr_words |-> Len(tr_df),
                 total_aligned |-> Len(alignment_records),
                 total_gaps |-> Len(gap_records),
                 alignment_rate |-> Rate(Len(alignment_records), Len(tr_df)),
                 book_stats |-> book_stats]
    /\ pc' = "aligned"
    /\ UNCHANGED <<tr_words, n1904_words, alignments, tr_gaps, n1904_gaps,
                   tr_df, n1904_df, book_i, common_todo, tr_only_todo,
                   book_alignments, book_tr_gaps, alignment_records,
                   gap_records, book_stats, aligner_calls, id_translation>>
    /\ UNCHANGED later_steps

(***************************************************************************)
(* ID translator: build_id_translation (p2_05_build_id_map.py).            *)
(***************************************************************************)
\* a missing value (None / NaN) of a table column; real identifiers are > 0
NaN == -1

CLAUSE_OFFSET == 1000000
PHRASE_OFFSET == 2000000

\* lines 41-46: one "word" row per alignment row
word_map(alignment_df) ==
    [k \in 1..Len(alignment_df) |->
        [n1904_id |-> alignment_df[k].n1904_node_id,
         tr_id |-> alignment_df[k].tr_word_id,
         node_type |-> "word"]]

\* lines 55-60: left merge on n1904_node_id == node_id; left row order is
\* kept, a left row without partner gets missing container ids
aligned_with_containers(alignment_df, n1904) ==
    Flatten([k \in 1..Len(alignment_df) |->
        LET partners == SelectSeq(n1904,
                LAMBDA r : r.node_id = alignment_df[k].n1904_node_id)
        IN  IF partners = <<>>
            THEN <<[clause_id |-> NaN, phrase_id |-> NaN]>>
            ELSE [j \in 1..Len(partners) |->
                    [clause_id |-> partners[j].clause_id,
                     phrase_id |-> partners[j].phrase_id]]])

\* Series.dropna()
DropNa(s) == SelectSeq(s, LAMBDA x : x # NaN)

\* the elements of a set of integers in increasing order
RECURSIVE SortedSeq(_)
SortedSeq(S) ==
    IF S = {} THEN <<>> ELSE <<Min(S)>> \o SortedSeq(S \ {Min(S)})

\* faulty variant: distinct values in sorted order, not in order of first appearance
dropna_unique_sorted(column) == SortedSeq(Range(DropNa(column)))

\* column.dropna().unique()
dropna_unique(column) == Unique(DropNa(column))

\* lines 65-69 and 74-78: tr_id = range(offset, offset + len(ids))
container_map(ids, offset, node_type) ==
    [k \in 1..Len(ids) |->
        [n1904_id |-> ids[k], tr_id |-> offset + k - 1, node_type |-> node_type]]

\* lines 25-88; astype("Int64") leaves integral identifiers unchanged
build_id_translation(alignment_df, n1904) ==
    LET merged == aligned_with_containers(alignment_df, n1904)
        unique_clauses ==
            dropna_unique([k \in 1..Len(merged) |-> merged[k].clause_id])
        unique_phrases ==
            dropna_unique([k \in 1..Len(merged) |-> merged[k].phrase_id])
    IN  word_map(alignment_df)
        \o container_map(unique_clauses, CLAUSE_OFFSET, "clause")
        \o container_map(unique_phrases, PHRASE_OFFSET, "phrase")

\* p2_05 main, lines 119-127: the ID map is built from the stored alignment
\* map and the N1904 table
BuildIdTranslation ==
    /\ pc = "aligned"
    /\ id_translation' = build_id_translation(alignment_records, n1904_df)
    /\ pc' = "done"
    /\ UNCHANGED <<tr_words, n1904_words, alignments, tr_gaps, n1904_gaps,
                   tr_df, n1904_df, book_i, common_todo, tr_only_todo,
                   book_alignments, book_tr_gaps, alignment_records,
                   gap_records, book_stats, stats, aligner_calls>>
    /\ UNCHANGED later_steps

(***************************************************************************)
(* Specification Spec: run_full_alignment followed by build_id_translation *)
(* on every pair of corpora within the bounds.                             *)
(***************************************************************************)
TrBooks == {"JHN", "PA", "MAT"}
N1904Books == {"John"}
Verses == {<<1, 1>>, <<1, 2>>}
TrForms == {<<LETTER_LAMBDA>>, <<ALPHA_OXIA>>}
N1904Forms == {<<LETTER_LAMBDA>>, <<ALPHA_TONOS>>}
\* (clause_id, phrase_id) of a reference word
Containers == {<<NaN, 7>>, <<7, 8>>}

TrCells == [book : TrBooks, cv : Verses, word : TrForms]

N1904Cells == [book : N1904Books, cv : Verses, word : N1904Forms,
               containers : Containers]

\* groupby(["book", "chapter", "verse"]).cumcount() + 1
CumCount(cells, k) ==
    Cardinality({j \in 1..k : cells[j].book = cells[k].book
                              /\ cells[j].cv = cells[k].cv})

\* the TR table as p1_05 writes it: word_id = 1..len, word_rank per verse
MakeTr(cells) ==
    [k \in 1..Len(cells) |->
        [word_id |-> k, book |-> cells[k].book, chapter |-> cells[k].cv[1],
         verse |-> cells[k].cv[2], word_rank |-> CumCount(cells, k),
         word |-> cells[k].word]]

\* the N1904 table: one row per word node, with its container columns
MakeN1904(cells) ==
    [k \in 1..Len(cells) |->
        [node_id |-> k, book |-> cells[k].book, chapter |-> cells[k].cv[1],
         verse |-> cells[k].cv[2], word_rank |-> CumCount(cells, k),
         word |-> cells[k].word, clause_id |-> cells[k].containers[1],
         phrase_id |-> cells[k].containers[2]]]

Init ==
    /\ pc = "books"
    /\ \E cells \in SeqsUpTo(TrCells, MaxSrc) : tr_df = MakeTr(cells)
    /\ \E cells \in SeqsUpTo(N1904Cells, MaxRef) : n1904_df = MakeN1904(cells)
    /\ tr_words = <<>>
    /\ n1904_words = <<>>
    /\ alignments = NoResult
    /\ tr_gaps = NoResult
    /\ n1904_gaps = NoResult
    /\ book_i = 0
    /\ common_todo = {}
    /\ tr_only_todo = {}
    /\ book_alignments = 0
    /\ book_tr_gaps = 0
    /\ alignment_records = <<>>
    /\ gap_records = <<>>
    /\ book_stats = <<>>
    /\ stats = <<>>
    /\ aligner_calls = {}
    /\ id_translation = <<>>
    /\ result = <<>>
    /\ broken_refs = 0
    /\ span_records = <<>>
    /\ key_criteria = match_criteria
    /\ keys = <<>>
    /\ files = InputFiles
    /\ outcomes = <<>>

Next ==
    \/ BookMissing
    \/ BookBegin
    \/ AlignCommonVerse
    \/ TrOnlyVerse
    \/ BookStats
    \/ OverallStats
    \/ BuildIdTranslation

Spec == Init /\ [][Next]_vars

(***************************************************************************)
(* Specification SpecId: build_id_translation applied to every alignment   *)
(* table and reference hierarchy within the bounds.                        *)
(***************************************************************************)
IdWordIds == {1, 2, 3, CLAUSE_OFFSET}
IdNodeIds == {1, 2}
IdContainerIds == {NaN, 7, 8}

\* alignment_df[["n1904_node_id", "tr_word_id"]], one row per source word
IdAlignmentTables ==
    {t \in SeqsUpTo([tr_word_id : IdWordIds, n1904_node_id : IdNodeIds], MaxAlign) :
        \A k1 \in 1..Len(t), k2 \in 1..Len(t) :
            k1 # k2 => t[k1].tr_word_id # t[k2].tr_word_id}

\* n1904_df[["node_id", "clause_id", "phrase_id"]], one row per word node
IdReferenceTables ==
    {[k \in 1..Cardinality(IdNodeIds) |->
        [node_id |-> k, clause_id |-> c[k], phrase_id |-> p[k]]] :
        c \in [IdNodeIds -> IdContainerIds], p \in [IdNodeIds -> IdContainerIds]}

InitId ==
    /\ pc = "aligned"
    /\ alignment_records \in IdAlignmentTables
    /\ n1904_df \in IdReferenceTables
    /\ tr_df = <<>>
    /\ tr_words = <<>>
    /\ n1904_words = <<>>
    /\ alignments = NoResult
    /\ tr_gaps = NoResult
    /\ n1904_gaps = NoResult
    /\ book_i = 0
    /\ common_todo = {}
    /\ tr_only_todo = {}
    /\ book_alignments = 0
    /\ book_tr_gaps = 0
    /\ gap_records = <<>>
    /\ book_stats = <<>>
    /\ stats = <<>>
    /\ aligner_calls = {}
    /\ id_translation = <<>>
    /\ result = <<>>
    /\ broken_refs = 0
    /\ span_records = <<>>
    /\ key_criteria = match_criteria
    /\ keys = <<>>
    /\ files = InputFiles
    /\ outcomes = <<>>

NextId == BuildIdTranslation

SpecId == InitId /\ [][NextId]_vars

(***************************************************************************)
(* Properties of run_full_alignment.                                       *)
(***************************************************************************)
Finished == pc \in {"aligned", "done"}

\* positions of the alignment / gap records that carry a source word_id
AlignmentsOf(id) ==
    {j \in 1..Len(alignment_records) : alignment_records[j].tr_word_id = id}

GapsOf(id) == {j \in 1..Len(gap_records) : gap_records[j].word_id = id}

\* the reference corpus has no row for the book a source book resolves to
ReferenceBookMissing(book) ==
    \A k \in 1..Len(n1904_df) : n1904_df[k].book # normalize_book_name(book)

\* the reference book has a row for the (chapter, verse) of a source row
ReferenceHasVerse(row) ==
    \E k \in 1..Len(n1904_df) :
        /\ n1904_df[k].book = normalize_book_name(row.book)
        /\ n1904_df[k].chapter = row.chapter
        /\ n1904_df[k].verse = row.verse

\* C1: after run_full_alignment every source word_id occurs in exactly one
\* record of the alignment table and the gap table taken together.
C1_Partition ==
    Finished =>
        \A k \in 1..Len(tr_df) :
            Cardinality(AlignmentsOf(tr_df[k].word_id))
                + Cardinality(GapsOf(tr_df[k].word_id)) = 1

\* a run that produced both alignment records and gap records
C1_Witness ==
    /\ Finished
    /\ alignment_records # <<>>
    /\ gap_records # <<>>
    /\ Len(tr_df) >= 2

\* C5: when the reference corpus has no rows for the resolved book, every
\* word of the source book gets exactly one gap record, of kind
\* "no_n1904_book", and no alignment record.
C5_MissingBookAllGaps ==
    Finished =>
        \A k \in 1..Len(tr_df) :
            ReferenceBookMissing(tr_df[k].book) =>
                /\ Cardinality(GapsOf(tr_df[k].word_id)) = 1
                /\ \A j \in GapsOf(tr_df[k].word_id) :
                      gap_records[j].gap_type = "no_n1904_book"
                /\ AlignmentsOf(tr_df[k].word_id) = {}

\* a book without reference data next to a book that was aligned
C5_Witness ==
    /\ Finished
    /\ \E k \in 1..Len(tr_df) : ReferenceBookMissing(tr_df[k].book)
    /\ alignment_records # <<>>

\* C6: the returned per-book statistics report a book whose reference book
\* is absent with 0 aligned words, as many gaps as words and a rate of 0%.
C6_MissingBookRateZero ==
    Finished =>
        \A k \in 1..Len(tr_df) :
            ReferenceBookMissing(tr_df[k].book) =>
                /\ tr_df[k].book \in DOMAIN stats.book_stats
                /\ stats.book_stats[tr_df[k].book].alignments = 0
                /\ stats.book_stats[tr_df[k].book].gaps
                      = Len(BookRows(tr_df, tr_df[k].book))
                /\ stats.book_stats[tr_df[k].book].alignment_rate.num = 0

\* C7: in a book with reference data, the words of a verse absent from the
\* reference book become "tr_only_verse" gaps, are never aligned and their
\* verse is never passed to align_verse_words; every gap of a verse present
\* in both corpora is "unmatched".
C7_SourceOnlyVerses ==
    Finished =>
        \A k \in 1..Len(tr_df) :
            ~ReferenceBookMissing(tr_df[k].book) =>
                IF ReferenceHasVerse(tr_df[k])
                THEN \A j \in GapsOf(tr_df[k].word_id) :
                        gap_records[j].gap_type = "unmatched"
                ELSE /\ GapsOf(tr_df[k].word_id) # {}
                     /\ \A j \in GapsOf(tr_df[k].word_id) :
                           gap_records[j].gap_type = "tr_only_verse"
                     /\ AlignmentsOf(tr_df[k].word_id) = {}
                     /\ <<tr_df[k].book, <<tr_df[k].chapter, tr_df[k].verse>>>>
                           \notin aligner_calls

\* a source-only verse and an unmatched word of a common verse in one run
C7_Witness ==
    /\ Finished
    /\ \E j \in 1..Len(gap_records) : gap_records[j].gap_type = "tr_only_verse"
    /\ \E j \in 1..Len(gap_records) : gap_records[j].gap_type = "unmatched"

(***************************************************************************)
(* Properties of build_id_translation.                                     *)
(***************************************************************************)
\* C8: no tr_id of the ID map appears under two different node types.
C8_NamespacesDisjoint ==
    pc = "done" =>
        \A k1 \in 1..Len(id_translation), k2 \in 1..Len(id_translation) :
            id_translation[k1].tr_id = id_translation[k2].tr_id
                => id_translation[k1].node_type = id_translation[k2].node_type

\* C9: in the ID map built from the corpus aligner's output each n1904_id
\* appears at most once per node type.
C9_ReferenceIdOncePerType ==
    pc = "done" =>
        \A k1 \in 1..Len(id_translation), k2 \in 1..Len(id_translation) :
            (/\ k1 # k2
             /\ id_translation[k1].node_type = id_translation[k2].node_type)
                => id_translation[k1].n1904_id # id_translation[k2].n1904_id

\* rows of the ID map of one node type, in table order
RowsOfType(node_type) ==
    SelectSeq(id_translation, LAMBDA r : r.node_type = node_type)

\* the container id (clause_id or phrase_id) of the reference word of
\* alignment row k
ContainerOf(k, column) ==
    LET node == CHOOSE n \in 1..Len(n1904_df) :
                    n1904_df[n].node_id = alignment_records[k].n1904_node_id
    IN  n1904_df[node][column]

\* the alignment row in which a container id appears first
FirstAppearance(id, column) ==
    Min({k \in 1..Len(alignment_records) : ContainerOf(k, column) = id})

MintedInOrder(node_type, column, offset) ==
    LET rows == RowsOfType(node_type)
        reachable == {ContainerOf(k, column) : k \in 1..Len(alignment_records)} \ {NaN}
    IN  /\ {rows[k].n1904_id : k \in 1..Len(rows)} = reachable
        /\ Len(rows) = Cardinality(reachable)
        /\ \A k \in 1..Len(rows) : rows[k].tr_id = offset + (k - 1)
        /\ \A k1 \in 1..Len(rows), k2 \in 1..Len(rows) :
              k1 < k2 => FirstAppearance(rows[k1].n1904_id, column)
                            < FirstAppearance(rows[k2].n1904_id, column)

\* C10: one identifier per distinct non-null clause id (phrase id) of an
\* aligned reference word; the k-th distinct id in order of first appearance
\* in the alignment table receives 1000000 + (k-1) (2000000 + (k-1)).
C10_MintedInFirstAppearanceOrder ==
    pc = "done" =>
        /\ MintedInOrder("clause", "clause_id", 1000000)
        /\ MintedInOrder("phrase", "phrase_id", 2000000)

\* three aligned words, two distinct clause ids, the larger one first and
\* one of them repeated
C10_Witness ==
    /\ pc = "done"
    /\ Len(alignment_records) = 3
    /\ Len(RowsOfType("clause")) = 2
    /\ RowsOfType("clause")[1].n1904_id > RowsOfType("clause")[2].n1904_id
    /\ Len(RowsOfType("phrase")) >= 1

(***************************************************************************)
(* Syntax transplant: scripts/phase2/p2_06_transplant_syntax.py            *)
(***************************************************************************)
syntax_features ==
    <<"lemma", "sp", "case", "tense", "voice", "mood", "function", "role",
      "parent", "clause_id", "phrase_id", "gloss">>

\* the features whose values are node ids (lines 87 and 90)
pointer_features == {"parent", "clause_id", "phrase_id"}

\* key in df.set_index(key_col)...to_dict()
HasKey(table, key_col, key) ==
    \E k \in 1..Len(table) : table[k][key_col] = key

\* df.set_index(key_col)[val_col].to_dict().get(key, default); of several
\* rows with the same key the last one is kept, whatever its node_type
DictGet(table, key_col, val_col, key, default) ==
    LET hits == {k \in 1..Len(table) : table[k][key_col] = key}
    IN  IF hits = {} THEN default ELSE table[Max(hits)][val_col]

\* lines 49-58: the copy of a TR row with every syntax column present,
\* aligned = False and n1904_node_id = None
with_columns(row) ==
    [c \in DOMAIN row \cup Range(syntax_features) \cup {"aligned", "n1904_node_id"} |->
        IF c = "aligned" THEN FALSE
        ELSE IF c = "n1904_node_id" THEN NaN
        ELSE IF c \in DOMAIN row THEN row[c]
        ELSE NaN]

\* lines 84-92: a node id is translated when the ID map has it and kept as
\* it is otherwise; every other value is copied
transplanted_value(feat, value, id_translation_df) ==
    IF feat \in pointer_features /\ value # NaN
    THEN DictGet(id_translation_df, "n1904_id", "tr_id", value, value)
    ELSE value

\* faulty variant: the alignment map is trusted to name existing nodes
has_reference_word_unchecked(row, n1904, alignment_df) ==
    HasKey(alignment_df, "tr_word_id", row.word_id)

\* lines 74 and 77: the word is in the alignment map and the node the map
\* gives for it is in the N1904 table
has_reference_word(row, n1904, alignment_df) ==
    /\ HasKey(alignment_df, "tr_word_id", row.word_id)
    /\ HasKey(n1904, "node_id",
              DictGet(alignment_df, "tr_word_id", "n1904_node_id", row.word_id, NaN))

\* n1904_lookup[n1904_id], or a row without columns when the node is unknown
reference_word(n1904, n1904_id) ==
    IF HasKey(n1904, "node_id", n1904_id)
    THEN n1904[CHOOSE k \in 1..Len(n1904) : n1904[k].node_id = n1904_id]
    ELSE <<>>

\* lines 72-96: one pass of the loop over the TR rows
transplant_row(row, n1904, alignment_df, id_translation_df) ==
    LET base == with_columns(row)
        n1904_id == DictGet(alignment_df, "tr_word_id", "n1904_node_id",
                            row.word_id, NaN)
        n1904_word == reference_word(n1904, n1904_id)
    IN  IF has_reference_word(row, n1904, alignment_df)
        THEN [c \in DOMAIN base |->
                IF c = "aligned" THEN TRUE
                ELSE IF c = "n1904_node_id" THEN n1904_id
                ELSE IF c \in Range(syntax_features) /\ c \in DOMAIN n1904_word
                THEN transplanted_value(c, n1904_word[c], id_translation_df)
                ELSE base[c]]
        ELSE base

\* lines 26-101
transplant_syntax(tr, n1904, alignment_df, id_translation_df) ==
    [k \in 1..Len(tr) |->
        transplant_row(tr[k], n1904, alignment_df, id_translation_df)]

\* main, lines 146-149: the word ids of the result and the tr_id of every
\* row of the ID map whose node_type is not "word"
valid_ids(res, id_translation_df) ==
    {res[k].word_id : k \in 1..Len(res)}
    \cup {id_translation_df[k].tr_id :
            k \in {j \in 1..Len(id_translation_df) :
                      id_translation_df[j].node_type # "word"}}

\* main, lines 151-154: the rows whose parent is counted as broken
broken_parents(res, id_translation_df) ==
    {k \in 1..Len(res) :
        /\ res[k].parent # NaN
        /\ res[k].parent \notin valid_ids(res, id_translation_df)
        /\ res[k].parent # 0}

\* main, lines 104-162: transplant, then validation of the parent column
TransplantMain ==
    /\ pc = "done"
    /\ result' = transplant_syntax(tr_df, n1904_df, alignment_records,
                                   id_translation)
    /\ broken_refs' = Cardinality(broken_parents(result', id_translation))
    /\ pc' = "transplanted"
    /\ UNCHANGED <<tr_words, n1904_words, alignments, tr_gaps, n1904_gaps,
                   tr_df, n1904_df, book_i, common_todo, tr_only_todo,
                   book_alignments, book_tr_gaps, alignment_records,
                   gap_records, book_stats, stats, aligner_calls,
                   id_translation, span_records, files, outcomes,
                   key_criteria, keys>>

(***************************************************************************)
(* Specification SpecTransplant: p2_06 main on every TR table, N1904       *)
(* table, alignment map and ID map within the bounds.  The ID map is the   *)
(* one p2_05 builds from the alignment map, or the one it built before the *)
(* last row of the alignment map was added.                                *)
(***************************************************************************)
MaxWords == 2

\* the node ids of the N1904 table; the alignment map may also name a node
\* that the table does not have
TransplantNodeIds == {1, 2}
DanglingNodeId == 3
\* parent of a reference word: none, the root 0, a word node, a clause node
TransplantParents == {NaN, 0, 1, 2, 7}
TransplantClauses == {NaN, 7}
\* a phrase id may be the number that is also a clause id
TransplantPhrases == {NaN, 7, 8}

TransplantTrTable ==
    [k \in 1..MaxWords |-> [word_id |-> k, lemma |-> "tr_lemma"]]

TransplantReferenceTables ==
    {[k \in 1..Cardinality(TransplantNodeIds) |->
        [node_id |-> k, lemma |-> "n1904_lemma", parent |-> pa[k],
         clause_id |-> c[k], phrase_id |-> p[k]]] :
        pa \in [TransplantNodeIds -> TransplantParents],
        c \in [TransplantNodeIds -> TransplantClauses],
        p \in [TransplantNodeIds -> TransplantPhrases]}

TransplantAlignmentTables ==
    {t \in SeqsUpTo([tr_word_id : 1..MaxWords,
                     n1904_node_id : TransplantNodeIds \cup {DanglingNodeId}],
                    MaxAlign) :
        \A k1 \in 1..Len(t), k2 \in 1..Len(t) :
            k1 # k2 => t[k1].tr_word_id # t[k2].tr_word_id}

InitTransplant ==
    /\ pc = "done"
    /\ tr_df = TransplantTrTable
    /\ n1904_df \in TransplantReferenceTables
    /\ alignment_records \in TransplantAlignmentTables
    /\ \E n \in {Len(alignment_records), Max({0, Len(alignment_records) - 1})} :
          id_translation =
              build_id_translation(SubSeq(alignment_records, 1, n), n1904_df)
    /\ tr_words = <<>>
    /\ n1904_words = <<>>
    /\ alignments = NoResult
    /\ tr_gaps = NoResult
    /\ n1904_gaps = NoResult
    /\ book_i = 0
    /\ common_todo = {}
    /\ tr_only_todo = {}
    /\ book_alignments = 0
    /\ book_tr_gaps = 0
    /\ gap_records = <<>>
    /\ book_stats = <<>>
    /\ stats = <<>>
    /\ aligner_calls = {}
    /\ result = <<>>
    /\ broken_refs = 0
    /\ span_records = <<>>
    /\ key_criteria = match_criteria
    /\ keys = <<>>
    /\ files = InputFiles
    /\ outcomes = <<>>

NextTransplant == TransplantMain

SpecTransplant == InitTransplant /\ [][NextTransplant]_vars

(***************************************************************************)
(* Properties of the syntax transplant.                                    *)
(***************************************************************************)
\* the N1904 row a transplanted row took its features from
ReferenceOf(k) ==
    n1904_df[CHOOSE j \in 1..Len(n1904_df) :
                n1904_df[j].node_id = result[k].n1904_node_id]

\* (n1904_id, tr_id) is a row of the ID map
IsTranslation(n1904_id, tr_id) ==
    \E m \in 1..Len(id_translation) :
        /\ id_translation[m].n1904_id = n1904_id
        /\ id_translation[m].tr_id = tr_id

\* C11: after transplant and validation, every non-null parent of an aligned
\* word that validation does not count as broken is the ID-map translation
\* of the reference word's parent; a raw reference id is never accepted
\* because it equals a source word_id or a minted container id.
C11_AcceptedParentIsTranslated ==
    pc = "transplanted" =>
        \A k \in 1..Len(result) :
            (/\ result[k].aligned
             /\ result[k].parent # NaN
             /\ k \notin broken_parents(result, id_translation))
            => IsTranslation(ReferenceOf(k).parent, result[k].parent)

\* the source word ids and the assigned ids of the ID map
KnownIds ==
    {result[k].word_id : k \in 1..Len(result)}
    \cup {id_translation[m].tr_id : m \in 1..Len(id_translation)}

\* the stored pointers (row, feature) that are neither null nor a known id
UnresolvedPointers ==
    {p \in (1..Len(result)) \X pointer_features :
        /\ result[p[1]][p[2]] # NaN
        /\ result[p[1]][p[2]] \notin KnownIds}

\* C12: the broken-reference count of validation is the number of non-null
\* stored parent, clause_id and phrase_id values that are neither a source
\* word_id nor an assigned id of the ID map.
C12_BrokenRefsCountsAllPointers ==
    pc = "transplanted" => broken_refs = Cardinality(UnresolvedPointers)

\* the columns of a result row besides the TR columns, the syntax features,
\* aligned and n1904_node_id: the only place where a flag could be kept
FlagColumns(k) ==
    DOMAIN result[k]
    \ (DOMAIN tr_df[k] \cup Range(syntax_features) \cup {"aligned", "n1904_node_id"})

\* C13: a parent, clause_id or phrase_id of an aligned reference word that
\* has no entry in the ID map is stored unchanged and the pointer is flagged
\* as untranslated.
C13_UntranslatedStoredRawAndFlagged ==
    pc = "transplanted" =>
        \A k \in 1..Len(result) : \A feat \in pointer_features :
            (/\ result[k].aligned
             /\ ReferenceOf(k)[feat] # NaN
             /\ ~HasKey(id_translation, "n1904_id", ReferenceOf(k)[feat]))
            => /\ result[k][feat] = ReferenceOf(k)[feat]
               /\ FlagColumns(k) # {}

\* the alignment map has a pair for the k-th TR word whose node exists
HasPair(k) ==
    \E j \in 1..Len(alignment_records) :
        /\ alignment_records[j].tr_word_id = tr_df[k].word_id
        /\ HasKey(n1904_df, "node_id", alignment_records[j].n1904_node_id)

\* C14: a word is marked aligned exactly when it has an alignment pair whose
\* reference node exists; then every transplanted feature that is not a node
\* id equals the reference value; every other word is marked unaligned, has
\* no reference node id and keeps the feature values of the input.
C14_AlignedExactlyWithExistingNode ==
    pc = "transplanted" =>
        /\ Len(result) = Len(tr_df)
        /\ \A k \in 1..Len(result) :
            /\ result[k].word_id = tr_df[k].word_id
            /\ result[k].aligned = HasPair(k)
            /\ result[k].aligned =>
                /\ HasKey(alignment_records, "tr_word_id", result[k].word_id)
                /\ result[k].n1904_node_id =
                      DictGet(alignment_records, "tr_word_id", "n1904_node_id",
                              result[k].word_id, NaN)
                /\ \A feat \in (Range(syntax_features) \ pointer_features)
                                 \cap DOMAIN ReferenceOf(k) :
                      result[k][feat] = ReferenceOf(k)[feat]
            /\ ~result[k].aligned =>
                /\ result[k].n1904_node_id = NaN
                /\ \A c \in DOMAIN tr_df[k] : result[k][c] = tr_df[k][c]
                /\ \A feat \in Range(syntax_features) \ DOMAIN tr_df[k] :
                      result[k][feat] = NaN

\* one word took the lemma of its reference word, another one is named by
\* the alignment map with a node the N1904 table does not have
C14_Witness ==
    /\ pc = "transplanted"
    /\ \E k \in 1..Len(result) :
          /\ result[k].aligned
          /\ result[k].lemma = "n1904_lemma"
          /\ tr_df[k].lemma = "tr_lemma"
    /\ \E k \in 1..Len(result) :
          /\ ~result[k].aligned
          /\ \E j \in 1..Len(alignment_records) :
                /\ alignment_records[j].tr_word_id = result[k].word_id
                /\ alignment_records[j].n1904_node_id = DanglingNodeId
          /\ result[k].lemma = "tr_lemma"

(***************************************************************************)
(* Gap span grouper: scripts/phase3/p3_01_analyze_gaps.py                  *)
(***************************************************************************)
\* the book codes of the model in the order of Python's string comparison
BookCodes == <<"JHN", "MAT", "PA">>

book_order(book) == CHOOSE i \in 1..Len(BookCodes) : BookCodes[i] = book

\* row a comes strictly before row b in the order of
\* ["book", "chapter", "verse", "word_rank"]
LocationLess(a, b) ==
    LET ka == <<book_order(a.book), a.chapter, a.verse, a.word_rank>>
        kb == <<book_order(b.book), b.chapter, b.verse, b.word_rank>>
    IN  \E i \in 1..4 :
            /\ ka[i] < kb[i]
            /\ \A j \in 1..(i - 1) : ka[j] = kb[j]

\* faulty variant: the rows are walked in the order of the file
sort_values_skipped(rows) == rows

\* lines 45-47: gaps_df.sort_values([...]).reset_index(drop=True); rows of
\* equal location keep their order
RECURSIVE sort_values(_)
sort_values(rows) ==
    IF rows = <<>> THEN <<>>
    ELSE LET first == Min({k \in 1..Len(rows) :
                            \A j \in 1..Len(rows) : ~LocationLess(rows[j], rows[k])})
         IN  <<rows[first]>>
             \o sort_values(SubSeq(rows, 1, first - 1)
                            \o SubSeq(rows, first + 1, Len(rows)))

\* faulty variant: any later gap of the verse extends the span
continues_span_any_rank(span, row) ==
    /\ span.book = row.book
    /\ span.chapter = row.chapter
    /\ span.verse = row.verse

\* lines 65-69: the row continues the current span
continues_span(span, row) ==
    /\ span.book = row.book
    /\ span.chapter = row.chapter
    /\ span.verse = row.verse
    /\ row.word_rank = span.end_word_rank + 1

\* lines 71-74
\* faulty variant: the word id of the added gap is not stored
extend_span_without_id(span, row) ==
    [span EXCEPT !.end_word_rank = row.word_rank,
                 !.words = Append(@, row.word),
                 !.word_count = @ + 1]

extend_span(span, row) ==
    [span EXCEPT !.end_word_rank = row.word_rank,
                 !.word_ids = Append(@, row.word_id),
                 !.words = Append(@, row.word),
                 !.word_count = @ + 1]

\* faulty variant: the first word of a span is not counted
new_span_uncounted(row) ==
    [book |-> row.book, chapter |-> row.chapter, verse |-> row.verse,
     start_word_rank |-> row.word_rank, end_word_rank |-> row.word_rank,
     word_ids |-> <<row.word_id>>, words |-> <<row.word>>,
     word_count |-> 0, gap_type |-> row.gap_type]

\* lines 81-91
new_span(row) ==
    [book |-> row.book, chapter |-> row.chapter, verse |-> row.verse,
     start_word_rank |-> row.word_rank, end_word_rank |-> row.word_rank,
     word_ids |-> <<row.word_id>>, words |-> <<row.word>>,
     word_count |-> 1, gap_type |-> row.gap_type]

\* lines 53-95: the spans after the first k rows; the current span is the
\* last one of the list
RECURSIVE spans_after(_, _)
spans_after(rows, k) ==
    IF k = 0 THEN <<>>
    ELSE LET spans == spans_after(rows, k - 1)
         IN  IF spans # <<>> /\ continues_span(spans[Len(spans)], rows[k])
             THEN [spans EXCEPT ![Len(spans)] = extend_span(@, rows[k])]
             ELSE Append(spans, new_span(rows[k]))

\* faulty variant: the kind of gap is not looked at
categorize_span_by_size(span) ==
    IF span.word_count = 1 THEN "single_word"
    ELSE IF span.word_count <= 5 THEN "short_phrase"
    ELSE "long_phrase"

\* lines 117-140
categorize_span(span) ==
    IF span.gap_type = "tr_only_verse" THEN "full_verse"
    ELSE IF span.word_count = 1 THEN "single_word"
    ELSE IF span.word_count <= 5 THEN "short_phrase"
    ELSE "long_phrase"

SPACE == " "

\* " ".join(words)
RECURSIVE SpaceJoin(_)
SpaceJoin(words) ==
    IF words = <<>> THEN <<>>
    ELSE IF Len(words) = 1 THEN words[1]
    ELSE words[1] \o <<SPACE>> \o SpaceJoin(Tail(words))

\* lines 26-114; tr_df is only indexed, never read
\* faulty variant: every span carries the kind of the first gap of the table
group_gaps_into_spans_first_kind(gaps_df) ==
    LET gaps_sorted == sort_values(gaps_df)
        spans == spans_after(gaps_sorted, Len(gaps_sorted))
    IN  [i \in 1..Len(spans) |->
            [span_id |-> i,
             book |-> spans[i].book,
             chapter |-> spans[i].chapter,
             verse |-> spans[i].verse,
             start_word_rank |-> spans[i].start_word_rank,
             end_word_rank |-> spans[i].end_word_rank,
             word_count |-> spans[i].word_count,
             text |-> SpaceJoin(spans[i].words),
             word_ids |-> spans[i].word_ids,
             gap_type |-> gaps_sorted[1].gap_type,
             category |-> categorize_span(spans[i])]]

group_gaps_into_spans(gaps_df) ==
    LET gaps_sorted == sort_values(gaps_df)
        spans == spans_after(gaps_sorted, Len(gaps_sorted))
    IN  [i \in 1..Len(spans) |->
            [span_id |-> i,
             book |-> spans[i].book,
             chapter |-> spans[i].chapter,
             verse |-> spans[i].verse,
             start_word_rank |-> spans[i].start_word_rank,
             end_word_rank |-> spans[i].end_word_rank,
             word_count |-> spans[i].word_count,
             text |-> SpaceJoin(spans[i].words),
             word_ids |-> spans[i].word_ids,
             gap_type |-> spans[i].gap_type,
             category |-> categorize_span(spans[i])]]

\* main, lines 227-281: the gap table written by p2_04 is read back and
\* grouped; a gap table without rows has no columns to sort by
AnalyzeGaps ==
    /\ pc = "done"
    /\ gap_records # <<>>
    /\ span_records' = group_gaps_into_spans(gap_records)
    /\ pc' = "analyzed"
    /\ UNCHANGED <<tr_words, n1904_words, alignments, tr_gaps, n1904_gaps,
                   tr_df, n1904_df, book_i, common_todo, tr_only_todo,
                   book_alignments, book_tr_gaps, alignment_records,
                   gap_records, book_stats, stats, aligner_calls,
                   id_translation, result, broken_refs, files, outcomes,
                   key_criteria, keys>>

(***************************************************************************)
(* Specification SpecSpans: p3_01 main on every gap table within the       *)
(* bounds whose rows have distinct locations, in every row order.          *)
(***************************************************************************)
MaxGaps == 3
MaxRank == 4

SpanVerses == <<<<"JHN", 1, 1>>, <<"JHN", 1, 2>>, <<"MAT", 1, 1>>>>
GapTypes == {"unmatched", "tr_only_verse", "no_n1904_book"}

SpanCells == [v : 1..Len(SpanVerses), word_rank : 1..MaxRank]

\* the TR row of a cell; word ids follow the location order
CellRow(cell) ==
    [word_id |-> (cell.v - 1) * MaxRank + cell.word_rank,
     book |-> SpanVerses[cell.v][1], chapter |-> SpanVerses[cell.v][2],
     verse |-> SpanVerses[cell.v][3], word_rank |-> cell.word_rank,
     word |-> <<LETTER_LAMBDA>>]

GapTables ==
    {[k \in 1..Len(cells) |-> GapRecord(CellRow(cells[k]), gap_type)] :
        cells \in {c \in SeqsUpTo(SpanCells, MaxGaps) :
                      /\ c # <<>>
                      /\ \A k1 \in 1..Len(c), k2 \in 1..Len(c) :
                            k1 # k2 => c[k1] # c[k2]},
        gap_type \in GapTypes}

InitSpans ==
    /\ pc = "done"
    /\ gap_records \in GapTables
    /\ tr_df = [k \in 1..Len(gap_records) |->
                  [c \in DOMAIN gap_records[k] \ {"gap_type"} |-> gap_records[k][c]]]
    /\ n1904_df = <<>>
    /\ tr_words = <<>>
    /\ n1904_words = <<>>
    /\ alignments = NoResult
    /\ tr_gaps = NoResult
    /\ n1904_gaps = NoResult
    /\ book_i = 0
    /\ common_todo = {}
    /\ tr_only_todo = {}
    /\ book_alignments = 0
    /\ book_tr_gaps = 0
    /\ alignment_records = <<>>
    /\ book_stats = <<>>
    /\ stats = <<>>
    /\ aligner_calls = {}
    /\ id_translation = <<>>
    /\ result = <<>>
    /\ broken_refs = 0
    /\ span_records = <<>>
    /\ key_criteria = match_criteria
    /\ keys = <<>>
    /\ files = InputFiles
    /\ outcomes = <<>>

NextSpans == AnalyzeGaps

SpecSpans == InitSpans /\ [][NextSpans]_vars

(***************************************************************************)
(* Properties of the gap span grouper.                                     *)
(***************************************************************************)
SameVerse(a, b) ==
    a.book = b.book /\ a.chapter = b.chapter /\ a.verse = b.verse

\* C15: every span consists of gaps of one (book, chapter, verse) whose ranks
\* are exactly start_word_rank..end_word_rank in rank order, none skipped,
\* and word_count = end_word_rank - start_word_rank + 1 = len(word_ids).
C15_SpanContiguous ==
    pc = "analyzed" =>
        \A s \in 1..Len(span_records) :
            LET span == span_records[s]
            IN  /\ span.word_count = span.end_word_rank - span.start_word_rank + 1
                /\ span.word_count = Len(span.word_ids)
                /\ \A i \in 1..Len(span.word_ids) :
                      \E g \in 1..Len(gap_records) :
                          /\ gap_records[g].word_id = span.word_ids[i]
                          /\ SameVerse(gap_records[g], span)
                          /\ gap_records[g].word_rank = span.start_word_rank + i - 1

\* a span of two words whose rows came in descending rank order, and a
\* second span of the same verse after a skipped rank
C15_Witness ==
    /\ pc = "analyzed"
    /\ \E s1 \in 1..Len(span_records), s2 \in 1..Len(span_records) :
          /\ SameVerse(span_records[s1], span_records[s2])
          /\ span_records[s1].word_count = 2
          /\ span_records[s2].start_word_rank > span_records[s1].end_word_rank + 1
    /\ \E g \in 1..(Len(gap_records) - 1) :
          /\ SameVerse(gap_records[g], gap_records[g + 1])
          /\ gap_records[g].word_rank > gap_records[g + 1].word_rank

\* C16: for a gap table whose rows have distinct (book, chapter, verse,
\* rank), in any row order, no two spans of one verse are adjacent and no
\* two spans overlap.
C16_SpansMaximal ==
    pc = "analyzed" =>
        \A s1 \in 1..Len(span_records), s2 \in 1..Len(span_records) :
            (s1 # s2 /\ SameVerse(span_records[s1], span_records[s2]))
            => /\ span_records[s1].start_word_rank # span_records[s2].end_word_rank + 1
               /\ \/ span_records[s1].end_word_rank < span_records[s2].start_word_rank
                  \/ span_records[s2].end_word_rank < span_records[s1].start_word_rank

\* the rows of one verse came with the higher rank first and between rows
\* of another verse; its adjacent gaps still form one span
C16_Witness ==
    /\ pc = "analyzed"
    /\ Len(gap_records) = 3
    /\ SameVerse(gap_records[1], gap_records[3])
    /\ ~SameVerse(gap_records[1], gap_records[2])
    /\ gap_records[1].word_rank = gap_records[3].word_rank + 1
    /\ \E s \in 1..Len(span_records) :
          /\ SameVerse(span_records[s], gap_records[1])
          /\ span_records[s].word_ids = <<gap_records[3].word_id, gap_records[1].word_id>>

(***************************************************************************)
(* Specification SpecGaps: run_full_alignment, build_id_translation and    *)
(* the gap analysis, one after the other, on corpora of two shapes: a      *)
(* long source verse next to little or no reference data, and a short      *)
(* source verse next to a short reference verse of the same location.      *)
(***************************************************************************)
MaxVerseWords == 9

EPSILON == "U03B5"

GapTrForms == {<<LETTER_LAMBDA>>, <<ALPHA_OXIA>>, <<EPSILON>>}
GapN1904Forms == {<<LETTER_LAMBDA>>, <<ALPHA_TONOS>>, <<EPSILON>>}

\* n words of verse 1:1 of a book, followed or not by one word of verse 1:2
LongVerseCells ==
    {[k \in 1..(n + m) |->
        [book |-> book, cv |-> IF k <= n THEN <<1, 1>> ELSE <<1, 2>>,
         word |-> <<LETTER_LAMBDA>>]] :
        n \in 1..MaxVerseWords, m \in {0, 1}, book \in {"JHN", "MAT"}}

\* no reference row, or one row of John 1:1 or 1:2 with another word
FewReferenceCells ==
    {<<>>} \cup
    {<<[book |-> "John", cv |-> cv, word |-> <<ALPHA_TONOS>>,
        containers |-> <<NaN, 7>>]>> : cv \in Verses}

ShortVerseCells(book, forms, containers) ==
    {[k \in 1..Len(words) |->
        [book |-> book, cv |-> <<1, 1>>, word |-> words[k],
         containers |-> containers]] :
        words \in SeqsUpTo(forms, MaxTrLen)}

InitGaps ==
    /\ pc = "books"
    /\ \/ /\ \E cells \in LongVerseCells : tr_df = MakeTr(cells)
          /\ \E cells \in FewReferenceCells : n1904_df = MakeN1904(cells)
       \/ /\ \E cells \in ShortVerseCells("JHN", GapTrForms, <<>>) \ {<<>>} :
                tr_df = MakeTr(cells)
          /\ \E cells \in ShortVerseCells("John", GapN1904Forms, <<NaN, 7>>) :
                n1904_df = MakeN1904(cells)
    /\ tr_words = <<>>
    /\ n1904_words = <<>>
    /\ alignments = NoResult
    /\ tr_gaps = NoResult
    /\ n1904_gaps = NoResult
    /\ book_i = 0
    /\ common_todo = {}
    /\ tr_only_todo = {}
    /\ book_alignments = 0
    /\ book_tr_gaps = 0
    /\ alignment_records = <<>>
    /\ gap_records = <<>>
    /\ book_stats = <<>>
    /\ stats = <<>>
    /\ aligner_calls = {}
    /\ id_translation = <<>>
    /\ result = <<>>
    /\ broken_refs = 0
    /\ span_records = <<>>
    /\ key_criteria = match_criteria
    /\ keys = <<>>
    /\ files = InputFiles
    /\ outcomes = <<>>

NextGaps ==
    \/ Next
    \/ AnalyzeGaps

SpecGaps == InitGaps /\ [][NextGaps]_vars

(***************************************************************************)
(* Properties of the gap analysis after a full alignment.                  *)
(***************************************************************************)
Categories == {"full_verse", "single_word", "short_phrase", "long_phrase"}

\* C17: a span of kind "tr_only_verse" is a full_verse whatever its size;
\* any other span is a single_word for size 1, a short_phrase for sizes 2 to
\* 5 and a long_phrase for size 6 or more; every span has exactly one of the
\* four categories.
C17_CategoryByKindThenSize ==
    pc = "analyzed" =>
        \A s \in 1..Len(span_records) :
            LET span == span_records[s]
            IN  /\ span.category \in Categories
                /\ span.gap_type = "tr_only_verse" => span.category = "full_verse"
                /\ (span.gap_type # "tr_only_verse" /\ span.word_count = 1)
                      => span.category = "single_word"
                /\ (span.gap_type # "tr_only_verse"
                        /\ span.word_count >= 2 /\ span.word_count <= 5)
                      => span.category = "short_phrase"
                /\ (span.gap_type # "tr_only_verse" /\ span.word_count >= 6)
                      => span.category = "long_phrase"

\* a full_verse span of six or more words next to a single_word span
C17_Witness ==
    /\ pc = "analyzed"
    /\ \E s \in 1..Len(span_records) :
          /\ span_records[s].gap_type = "tr_only_verse"
          /\ span_records[s].word_count >= 6
          /\ span_records[s].category = "full_verse"
    /\ \E s \in 1..Len(span_records) :
          /\ span_records[s].gap_type = "unmatched"
          /\ span_records[s].category = "single_word"

\* the rows of the source table in the verse of row
TrVerse(row) == SelectSeq(tr_df, LAMBDA r : SameVerse(r, row))

\* the reference rows of the verse of a source row
N1904Verse(row) ==
    SelectSeq(n1904_df,
        LAMBDA r : /\ r.book = normalize_book_name(row.book)
                   /\ r.chapter = row.chapter
                   /\ r.verse = row.verse)

GapsOfVerse(row) == SelectSeq(gap_records, LAMBDA g : SameVerse(g, row))

SpansOfVerse(row) == SelectSeq(span_records, LAMBDA sp : SameVerse(sp, row))

\* the verse of a source row is in a book with reference data but not in
\* the reference book
SourceOnlyVerse(row) ==
    ~ReferenceBookMissing(row.book) /\ ~ReferenceHasVerse(row)

\* C18: a source-only verse of n words ranked 1..n gives n gaps, all of kind
\* "tr_only_verse", and exactly one span, of category full_verse and
\* word_count n.
C18_SourceOnlyVerseOneSpan ==
    pc = "analyzed" =>
        \A k \in 1..Len(tr_df) :
            SourceOnlyVerse(tr_df[k]) =>
                LET n == Len(TrVerse(tr_df[k]))
                    gaps == GapsOfVerse(tr_df[k])
                    spans == SpansOfVerse(tr_df[k])
                IN  /\ Len(gaps) = n
                    /\ \A g \in 1..n : gaps[g].gap_type = "tr_only_verse"
                    /\ Len(spans) = 1
                    /\ spans[1].category = "full_verse"
                    /\ spans[1].word_count = n
                    /\ spans[1].start_word_rank = 1
                    /\ spans[1].end_word_rank = n

\* the scenario of the specification: a source-only verse of nine words
C18_Witness ==
    /\ pc = "analyzed"
    /\ \E k \in 1..Len(tr_df) :
          /\ SourceOnlyVerse(tr_df[k])
          /\ Len(TrVerse(tr_df[k])) = 9
          /\ Len(SpansOfVerse(tr_df[k])) = 1
          /\ SpansOfVerse(tr_df[k])[1].word_count = 9

\* the keys of a sequence of rows
KeysOf(rows) ==
    [k \in 1..Len(rows) |-> create_word_key(rows[k], match_criteria)]

\* two key sequences of equal length that differ in their first key only
DifferInFirstKeyOnly(a, b) ==
    /\ Len(a) = Len(b)
    /\ Len(a) >= 1
    /\ a[1] # b[1]
    /\ \A i \in 2..Len(a) : a[i] = b[i]

AlignmentsOfVerse(row) ==
    SelectSeq(alignment_records, LAMBDA r : SameVerse(r, row))

IsInsertion(a, b) ==
    /\ Len(b) = Len(a) + 1
    /\ \E p \in 1..Len(b) :
          a = SubSeq(b, 1, p - 1) \o SubSeq(b, p + 1, Len(b))

PairwiseDistinct(a) ==
    \A i \in 1..Len(a), j \in 1..Len(a) : i # j => a[i] # a[j]

InsertionFullyAligned ==
    /\ Len(alignments) = Len(tr_words)
    /\ tr_gaps = <<>>
    /\ Len(n1904_gaps) = 1

TwoVerseReferenceCells ==
    {<<[book |-> "John", cv |-> <<1, 1>>, word |-> w[1], containers |-> c[1]],
       [book |-> "John", cv |-> <<1, 2>>, word |-> w[2], containers |-> c[2]]>> :
        w \in [1..2 -> N1904Forms], c \in [1..2 -> Containers]}

\* a reference book with John 1:1 alone, next to which John 1:2 is a verse
\* of the source only
OneVerseReferenceCells ==
    {<<[book |-> "John", cv |-> <<1, 1>>, word |-> w, containers |-> c]>> :
        w \in N1904Forms, c \in Containers}

InitOrder ==
    /\ pc = "books"
    /\ \E cells \in SeqsUpTo(TrCells, MaxSrc) \ {<<>>} : tr_df = MakeTr(cells)
    /\ \E cells \in TwoVerseReferenceCells \cup OneVerseReferenceCells :
          n1904_df = MakeN1904(cells)
    /\ tr_words = <<>>
    /\ n1904_words = <<>>
    /\ alignments = NoResult
    /\ tr_gaps = NoResult
    /\ n1904_gaps = NoResult
    /\ book_i = 0
    /\ common_todo = {}
    /\ tr_only_todo = {}
    /\ book_alignments = 0
    /\ book_tr_gaps = 0
    /\ alignment_records = <<>>
    /\ gap_records = <<>>
    /\ book_stats = <<>>
    /\ stats = <<>>
    /\ aligner_calls = {}
    /\ id_translation = <<>>
    /\ result = <<>>
    /\ broken_refs = 0
    /\ span_records = <<>>
    /\ key_criteria = match_criteria
    /\ keys = <<>>
    /\ files = InputFiles
    /\ outcomes = <<>>

NextOrder == Next

SpecOrder == InitOrder /\ [][NextOrder]_vars

(***************************************************************************)
(* Properties of run_full_alignment under every order of the verse loops.  *)
(***************************************************************************)
\* the books of the source table, those with and without reference data
SourceBooks == {tr_df[k].book : k \in 1..Len(tr_df)}
CoveredBooks == {b \in SourceBooks : ~ReferenceBookMissing(b)}

\* the verses of a source book, and whether the reference book has them
SourceVerses(b) == VerseSet(BookRows(tr_df, b))
ReferenceVerses(b) == VerseSet(BookRows(n1904_df, normalize_book_name(b)))

\* the outcome of the verse aligner on verse cv of source book b
VerseOutcome(b, cv) ==
    align_verse_words(VerseRows(BookRows(tr_df, b), cv),
                      VerseRows(BookRows(n1904_df, normalize_book_name(b)), cv),
                      match_criteria)

\* (tr_word_id, n1904_node_id) of every pair the input determines
ExpectedPairs ==
    UNION {UNION {
        {<<VerseRows(BookRows(tr_df, b), cv)[p[1] + 1].word_id,
           VerseRows(BookRows(n1904_df, normalize_book_name(b)), cv)[p[2] + 1].node_id>> :
            p \in Range(VerseOutcome(b, cv).alignments)} :
        cv \in SourceVerses(b) \cap ReferenceVerses(b)} :
        b \in CoveredBooks}

\* (word_id, gap_type) of every gap the input determines
ExpectedGaps ==
    {<<tr_df[k].word_id, "no_n1904_book">> :
        k \in {j \in 1..Len(tr_df) : tr_df[j].book \notin CoveredBooks}}
    \cup {<<tr_df[k].word_id, "tr_only_verse">> :
        k \in {j \in 1..Len(tr_df) :
                  /\ tr_df[j].book \in CoveredBooks
                  /\ ~ReferenceHasVerse(tr_df[j])}}
    \cup UNION {UNION {
        {<<VerseRows(BookRows(tr_df, b), cv)[i + 1].word_id, "unmatched">> :
            i \in Range(VerseOutcome(b, cv).tr_gaps)} :
        cv \in SourceVerses(b) \cap ReferenceVerses(b)} :
        b \in CoveredBooks}

\* the number of records of a table that belong to book b
CountOfBook(table, b) ==
    Cardinality({k \in 1..Len(table) : table[k].book = b})

\* the number of pairs the input determines for book b
ExpectedAligned(b) ==
    Cardinality({p \in ExpectedPairs :
        \E k \in 1..Len(tr_df) : tr_df[k].word_id = p[1] /\ tr_df[k].book = b})

\* C21: whatever order the verses of a book are processed in, the alignment
\* records, the gap records and the per-book statistics are the ones the two
\* input tables determine.
C21_ResultIndependentOfOrder ==
    Finished =>
        /\ {<<alignment_records[k].tr_word_id, alignment_records[k].n1904_node_id>> :
                k \in 1..Len(alignment_records)} = ExpectedPairs
        /\ Len(alignment_records) = Cardinality(ExpectedPairs)
        /\ {<<gap_records[k].word_id, gap_records[k].gap_type>> :
                k \in 1..Len(gap_records)} = ExpectedGaps
        /\ Len(gap_records) = Cardinality(ExpectedGaps)
        /\ DOMAIN book_stats = CoveredBooks
        /\ \A b \in CoveredBooks :
              /\ book_stats[b].tr_words = CountOfBook(tr_df, b)
              /\ book_stats[b].alignments = ExpectedAligned(b)
              /\ book_stats[b].gaps = CountOfBook(tr_df, b) - ExpectedAligned(b)
              /\ book_stats[b].alignment_rate.num = ExpectedAligned(b) * 100
              /\ book_stats[b].alignment_rate.den = CountOfBook(tr_df, b)

\* the rows a table has at positions k1 < k2 are of one book, the earlier
\* one of the later verse
LaterVerseFirst(table) ==
    \E k1 \in 1..Len(table), k2 \in 1..Len(table) :
        /\ k1 < k2
        /\ table[k1].book = table[k2].book
        /\ table[k1].chapter = table[k2].chapter
        /\ table[k1].verse > table[k2].verse

\* a finished run that aligned verse 1:2 of a book before its verse 1:1
C21_Witness ==
    /\ Finished
    /\ LaterVerseFirst(alignment_records)

\* the alignment table in the order the loops produce when the verses of
\* each book are taken in ascending order
\* position of a book in the loop "for tr_book in tr_books"
BookIndex(book) == CHOOSE i \in 1..Len(tr_books) : tr_books[i] = book

VerseLess(a, b) ==
    LET ka == <<BookIndex(a.book), a.chapter, a.verse>>
        kb == <<BookIndex(b.book), b.chapter, b.verse>>
    IN  \E i \in 1..3 :
            /\ ka[i] < kb[i]
            /\ \A j \in 1..(i - 1) : ka[j] = kb[j]

RECURSIVE AscendingVerses(_)
AscendingVerses(table) ==
    IF table = <<>> THEN <<>>
    ELSE LET first == Min({k \in 1..Len(table) :
                            \A j \in 1..Len(table) : ~VerseLess(table[j], table[k])})
         IN  <<table[first]>>
             \o AscendingVerses(SubSeq(table, 1, first - 1)
                                \o SubSeq(table, first + 1, Len(table)))

ContainerRows(id_map) ==
    {id_map[k] : k \in {j \in 1..Len(id_map) : id_map[j].node_type # "word"}}

\* C22: every reference clause id and phrase id has the same tr_id in the ID
\* map whatever order the aligner processed the verses in, that is, the
\* tr_id it has when the verses are processed in ascending order.
C22_IdMapIndependentOfOrder ==
    pc = "done" =>
        ContainerRows(id_translation)
            = ContainerRows(build_id_translation(
                  AscendingVerses(alignment_records), n1904_df))

\* the fraction r equals aligned / total * 100, or 0 when total is 0
IsPercentage(r, aligned, total) ==
    IF total > 0
    THEN r.den > 0 /\ r.num * total = aligned * 100 * r.den
    ELSE r.num = 0

\* C23: every per-book entry has alignments + gaps = words of the book and
\* alignment_rate = alignments / words * 100 (0 for a book without words);
\* the overall totals satisfy total_aligned + total_gaps = total words.
C23_StatisticsAddUp ==
    Finished =>
        /\ \A b \in DOMAIN stats.book_stats :
              LET bs == stats.book_stats[b]
              IN  /\ bs.tr_words = CountOfBook(tr_df, b)
                  /\ bs.alignments + bs.gaps = bs.tr_words
                  /\ IsPercentage(bs.alignment_rate, bs.alignments, bs.tr_words)
        /\ stats.total_tr_words = Len(tr_df)
        /\ stats.total_aligned + stats.total_gaps = stats.total_tr_words

\* a book of which one word was aligned and another one was not
C23_Witness ==
    /\ Finished
    /\ \E b \in DOMAIN stats.book_stats :
          /\ stats.book_stats[b].alignments = 1
          /\ stats.book_stats[b].gaps = 1
          /\ stats.book_stats[b].alignment_rate.num = 100
          /\ stats.book_stats[b].alignment_rate.den = 2

(***************************************************************************)
(* The main functions of the four steps, seen from the files: which inputs *)
(* they need, what they report when one is absent, what they write.        *)
(***************************************************************************)
Steps == {"p2_04", "p2_05", "p2_06", "p3_01"}

\* the input files of a step in the order in which main looks for them
required_inputs(step) ==
    IF step = "p2_04" THEN <<TR_WORDS, N1904_WORDS>>
    ELSE IF step = "p2_05" THEN <<ALIGNMENT_MAP, N1904_WORDS>>
    ELSE IF step = "p2_06"
         THEN <<TR_WORDS, N1904_WORDS, ALIGNMENT_MAP, ID_TRANSLATION>>
    ELSE <<GAPS, TR_WORDS>>

\* the files main writes when it runs to its end
output_files(step) ==
    IF step = "p2_04" THEN {ALIGNMENT_MAP, GAPS, ALIGNMENT_REPORT}
    ELSE IF step = "p2_05" THEN {ID_TRANSLATION}
    ELSE IF step = "p2_06" THEN {TR_TRANSPLANTED}
    ELSE {GAP_SPANS, GAP_REPORT}

\* the first required input that is absent; p2_05, p2_06 and p3_01 test
\* path.exists() and log the path, p2_04 fails in pd.read_parquet, whose
\* FileNotFoundError carries the path and is logged by ScriptLogger
missing_inputs(step, present) ==
    SelectSeq(required_inputs(step), LAMBDA path : path \notin present)

\* faulty variant: the output file is created before the inputs are looked at
files_written_early(step, present) == output_files(step)

\* nothing is written before every input has been found and loaded
files_written(step, present) ==
    IF missing_inputs(step, present) = <<>> THEN output_files(step) ELSE {}

\* one run of the main of a step
run_main(step, present) ==
    [step |-> step,
     before |-> present,
     ok |-> missing_inputs(step, present) = <<>>,
     diagnostic |-> IF missing_inputs(step, present) = <<>> THEN <<>>
                    ELSE <<missing_inputs(step, present)[1]>>,
     wrote |-> files_written(step, present)]

StepsRun == {outcomes[k].step : k \in 1..Len(outcomes)}

RunMain(step) ==
    /\ pc = "files"
    /\ step \notin StepsRun
    /\ outcomes' = Append(outcomes, run_main(step, files))
    /\ files' = files \cup run_main(step, files).wrote
    /\ UNCHANGED <<pc, tr_words, n1904_words, alignments, tr_gaps, n1904_gaps,
                   tr_df, n1904_df, book_i, common_todo, tr_only_todo,
                   book_alignments, book_tr_gaps, alignment_records,
                   gap_records, book_stats, stats, aligner_calls,
                   id_translation, result, broken_refs, span_records,
                   key_criteria, keys>>

\* p2_04 main, lines 203-242
FullAlignmentMain == RunMain("p2_04")

\* p2_05 main, lines 91-131
BuildIdMapMain == RunMain("p2_05")

\* p2_06 main, lines 104-162
TransplantSyntaxMain == RunMain("p2_06")

\* p3_01 main, lines 227-281
AnalyzeGapsMain == RunMain("p3_01")

(***************************************************************************)
(* Specification SpecFiles: every step is run once, in any order, from     *)
(* every set of input files.                                               *)
(***************************************************************************)
InitFiles ==
    /\ pc = "files"
    /\ files \in SUBSET InputFiles
    /\ outcomes = <<>>
    /\ tr_df = <<>>
    /\ n1904_df = <<>>
    /\ tr_words = <<>>
    /\ n1904_words = <<>>
    /\ alignments = NoResult
    /\ tr_gaps = NoResult
    /\ n1904_gaps = NoResult
    /\ book_i = 0
    /\ common_todo = {}
    /\ tr_only_todo = {}
    /\ book_alignments = 0
    /\ book_tr_gaps = 0
    /\ alignment_records = <<>>
    /\ gap_records = <<>>
    /\ book_stats = <<>>
    /\ stats = <<>>
    /\ aligner_calls = {}
    /\ id_translation = <<>>
    /\ result = <<>>
    /\ broken_refs = 0
    /\ span_records = <<>>
    /\ key_criteria = match_criteria
    /\ keys = <<>>

NextFiles ==
    \/ FullAlignmentMain
    \/ BuildIdMapMain
    \/ TransplantSyntaxMain
    \/ AnalyzeGapsMain

SpecFiles == InitFiles /\ [][NextFiles]_vars

\* C24: a step that finds a required input absent stops with a diagnostic
\* that names an absent input and writes none of its output files.
C24_AbsentInputAbortsWithoutOutput ==
    \A k \in 1..Len(outcomes) :
        LET o == outcomes[k]
        IN  (\E n \in 1..Len(required_inputs(o.step)) :
                required_inputs(o.step)[n] \notin o.before)
            => /\ ~o.ok
               /\ Len(o.diagnostic) = 1
               /\ o.diagnostic[1] \in Range(required_inputs(o.step)) \ o.before
               /\ o.wrote = {}
               /\ \A j \in 1..k :
                     outcomes[j].step = o.step => outcomes[j].wrote = {}

\* the alignment ran to its end and the transplant after it stopped because
\* the ID map had not been built
C24_Witness ==
    /\ \E k \in 1..Len(outcomes) :
          outcomes[k].step = "p2_04" /\ outcomes[k].ok
    /\ \E k \in 1..Len(outcomes) :
          /\ outcomes[k].step = "p2_06"
          /\ ~outcomes[k].ok
          /\ outcomes[k].diagnostic = <<ID_TRANSLATION>>
          /\ TR_TRANSPLANTED \notin files

(***************************************************************************)
(* Specification SpecKey: create_word_key on two word rows and a list of   *)
(* criteria.  A feature of a row is absent, empty, or one of four          *)
(* spellings, three of which are the same text after NFC.                  *)
(***************************************************************************)
MaxCriteria == 2

KeyFeatures == {"word", "lemma"}
KeyValues ==
    {<<>>, <<LETTER_LAMBDA>>, <<ALPHA_TONOS>>, <<ALPHA_OXIA>>, <<ALPHA, ACUTE>>}

\* the rows over the features, each feature present or not
KeyRows ==
    UNION {[present -> KeyValues] : present \in SUBSET KeyFeatures}

\* lines 52-63, applied to the row of each corpus
CreateWordKeys ==
    /\ pc = "key_call"
    /\ keys' = <<create_word_key(tr_words[1], key_criteria),
                 create_word_key(n1904_words[1], key_criteria)>>
    /\ pc' = "key_done"
    /\ UNCHANGED <<tr_words, n1904_words, alignments, tr_gaps, n1904_gaps,
                   tr_df, n1904_df, book_i, common_todo, tr_only_todo,
                   book_alignments, book_tr_gaps, alignment_records,
                   gap_records, book_stats, stats, aligner_calls,
                   id_translation, result, broken_refs, span_records,
                   files, outcomes, key_criteria>>

InitKey ==
    /\ pc = "key_call"
    /\ key_criteria \in SeqsUpTo(KeyFeatures, MaxCriteria)
    /\ \E row \in KeyRows : tr_words = <<row>>
    /\ \E row \in KeyRows : n1904_words = <<row>>
    /\ keys = <<>>
    /\ alignments = NoResult
    /\ tr_gaps = NoResult
    /\ n1904_gaps = NoResult
    /\ tr_df = <<>>
    /\ n1904_df = <<>>
    /\ book_i = 0
    /\ common_todo = {}
    /\ tr_only_todo = {}
    /\ book_alignments = 0
    /\ book_tr_gaps = 0
    /\ alignment_records = <<>>
    /\ gap_records = <<>>
    /\ book_stats = <<>>
    /\ stats = <<>>
    /\ aligner_calls = {}
    /\ id_translation = <<>>
    /\ result = <<>>
    /\ broken_refs = 0
    /\ span_records = <<>>
    /\ files = InputFiles
    /\ outcomes = <<>>

NextKey == CreateWordKeys

SpecKey == InitKey /\ [][NextKey]_vars

\* the normalized value of a feature of a row, empty when it is absent
NormalizedValue(row, feature) ==
    IF feature \in DOMAIN row THEN NFC(row[feature]) ELSE <<>>

\* the number of separators in a key
Separators(key) == Cardinality({n \in 1..Len(key) : key[n] = SEP})

\* C25: the key is the normalized values of the named features in the given
\* order, joined by "|", an absent or empty feature giving the empty text;
\* for values without the separator two rows have equal keys exactly when
\* they agree on the normalized value of every named feature.
C25_KeyJoinsNormalizedValues ==
    pc = "key_done" =>
        LET row1 == tr_words[1]
            row2 == n1904_words[1]
        IN  /\ (keys[1] = keys[2])
                  <=> \A c \in 1..Len(key_criteria) :
                         NormalizedValue(row1, key_criteria[c])
                            = NormalizedValue(row2, key_criteria[c])
            /\ key_criteria # <<>> =>
                  /\ Separators(keys[1]) = Len(key_criteria) - 1
                  /\ SubSeq(keys[1], 1, Len(NormalizedValue(row1, key_criteria[1])))
                        = NormalizedValue(row1, key_criteria[1])
                  /\ SubSeq(keys[1],
                            Len(keys[1]) - Len(NormalizedValue(row1, key_criteria[Len(key_criteria)])) + 1,
                            Len(keys[1]))
                        = NormalizedValue(row1, key_criteria[Len(key_criteria)])
            /\ key_criteria = <<>> => keys[1] = <<>>

\* two criteria; one row spells a value with oxia and lacks the other
\* feature, the other row spells it with tonos and has the other feature
\* empty: the keys are equal
C25_Witness ==
    /\ pc = "key_done"
    /\ key_criteria = <<"lemma", "word">>
    /\ tr_words[1] = [word |-> <<ALPHA_OXIA>>]
    /\ n1904_words[1] = [word |-> <<ALPHA_TONOS>>, lemma |-> <<>>]
    /\ keys[1] = keys[2]
    /\ keys[1] = <<SEP, ALPHA_TONOS>>

(***************************************************************************)
(* Properties of the syntax transplant that concern the node type.         *)
(***************************************************************************)
\* the tr_id the ID map gives to a reference id under a node type
MappingsOfType(n1904_id, node_type) ==
    {id_translation[m].tr_id :
        m \in {j \in 1..Len(id_translation) :
                  /\ id_translation[j].n1904_id = n1904_id
                  /\ id_translation[j].node_type = node_type}}

ContainerFeatures == {<<"clause_id", "clause">>, <<"phrase_id", "phrase">>}

\* C26: when the clause_id (phrase_id) of the reference word has a mapping
\* of node type clause (phrase), the stored clause_id (phrase_id) is the
\* tr_id of that mapping, also when the same number is mapped under another
\* node type.
C26_TranslatedByOwnNodeType ==
    pc = "transplanted" =>
        \A k \in 1..Len(result) : \A f \in ContainerFeatures :
            (/\ result[k].aligned
             /\ ReferenceOf(k)[f[1]] # NaN
             /\ MappingsOfType(ReferenceOf(k)[f[1]], f[2]) # {})
            => result[k][f[1]] \in MappingsOfType(ReferenceOf(k)[f[1]], f[2])

(***************************************************************************)
(* Properties of the pairing returned by align_verse_words.                *)
(***************************************************************************)
\* C27: every pair returned by align_verse_words joins a source word and a
\* reference word with equal keys, and no source index and no reference
\* index occurs in two pairs.
C27_PairsJoinEqualKeysOneToOne ==
    pc = "align_done" =>
        LET tr_keys == TrKeys
            n1904_keys == N1904Keys
        IN  /\ \A n \in 1..Len(alignments) :
                  tr_keys[alignments[n][1] + 1] = n1904_keys[alignments[n][2] + 1]
            /\ \A m, n \in 1..Len(alignments) :
                  m # n => /\ alignments[m][1] # alignments[n][1]
                           /\ alignments[m][2] # alignments[n][2]

\* two pairs, one of them joining words whose stored forms differ
C27_Witness ==
    /\ pc = "align_done"
    /\ Len(alignments) >= 2
    /\ \E n \in 1..Len(alignments) :
          tr_words[alignments[n][1] + 1].word
              # n1904_words[alignments[n][2] + 1].word

\* the pair (i, j) can be added to the alignment with the order preserved
Addable(i, j) ==
    \A n \in 1..Len(alignments) :
        (alignments[n][1] < i) <=> (alignments[n][2] < j)

\* a source gap and a reference gap with equal keys
EqualKeyGaps ==
    LET tr_keys == TrKeys
        n1904_keys == N1904Keys
    IN  {g \in Range(tr_gaps) \X Range(n1904_gaps) :
            tr_keys[g[1] + 1] = n1904_keys[g[2] + 1]}

\* C28 as stated: no source gap and reference gap with equal keys can be
\* added to the alignment with the strict order preserved.
C28_AlignmentMaximal ==
    pc = "align_done" => \A g \in EqualKeyGaps : ~Addable(g[1], g[2])

\* C28: when the reference verse has fewer than 200 words, no source gap and
\* reference gap with equal keys can be added to the alignment with the
\* strict order preserved.
C28_AlignmentMaximalBelow200 ==
    (pc = "align_done" /\ Len(n1904_words) < 200) =>
        \A g \in EqualKeyGaps : ~Addable(g[1], g[2])

\* a reference verse of 199 words: words are paired, and a source gap has
\* the key of a reference gap
C28_Witness ==
    /\ pc = "align_done"
    /\ Len(n1904_words) = 199
    /\ alignments # <<>>
    /\ EqualKeyGaps # {}

(***************************************************************************)
(* Conservation properties of the gap span grouper.                        *)
(***************************************************************************)
\* the places (span, position) of the span table that hold the word id
PlacesOf(word_id) ==
    {p \in (1..Len(span_records)) \X (1..Len(gap_records)) :
        /\ p[2] <= Len(span_records[p[1]].word_ids)
        /\ span_records[p[1]].word_ids[p[2]] = word_id}

RECURSIVE TotalWordCount(_)
TotalWordCount(n) ==
    IF n = 0 THEN 0 ELSE span_records[n].word_count + TotalWordCount(n - 1)

\* the location of the first gap of a span
SpanStart(span) ==
    [book |-> span.book, chapter |-> span.chapter, verse |-> span.verse,
     word_rank |-> span.start_word_rank]

\* C29: every gap record's word_id is in the word_ids of exactly one span,
\* no span is empty, the word_count values add up to the number of gap
\* records, and the span_ids are 1..(number of spans) in the order of
\* (book, chapter, verse, rank).
C29_SpansConserveGaps ==
    pc = "analyzed" =>
        /\ \A g \in 1..Len(gap_records) :
              Cardinality(PlacesOf(gap_records[g].word_id)) = 1
        /\ \A s \in 1..Len(span_records) :
              /\ span_records[s].word_ids # <<>>
              /\ span_records[s].word_count >= 1
              /\ span_records[s].span_id = s
        /\ TotalWordCount(Len(span_records)) = Len(gap_records)
        /\ \A s, t \in 1..Len(span_records) :
              s < t => LocationLess(SpanStart(span_records[s]),
                                    SpanStart(span_records[t]))

\* a gap table that is not in location order, grouped into a span of two
\* words and another span
C29_Witness ==
    /\ pc = "analyzed"
    /\ Len(gap_records) = 3
    /\ LocationLess(gap_records[3], gap_records[1])
    /\ Len(span_records) = 2
    /\ \E s \in 1..2 : span_records[s].word_count = 2

\* the gap records that carry a word id
GapsWithId(word_id) ==
    {g \in 1..Len(gap_records) : gap_records[g].word_id = word_id}

\* C30: on the gap records of run_full_alignment, every gap of a span has
\* the gap kind recorded on the span, and the span's category is the one
\* that gap's kind gives.
C30_SpanKindHoldsForEveryGap ==
    pc = "analyzed" =>
        \A s \in 1..Len(span_records) :
            \A i \in 1..Len(span_records[s].word_ids) :
                \A g \in GapsWithId(span_records[s].word_ids[i]) :
                    /\ gap_records[g].gap_type = span_records[s].gap_type
                    /\ span_records[s].category =
                         categorize_span(
                             [gap_type |-> gap_records[g].gap_type,
                              word_count |-> span_records[s].word_count])

\* the aligner's gaps of a source-only verse and of an aligned verse,
\* grouped into spans of two kinds, one of them of more than one word
C30_Witness ==
    /\ pc = "analyzed"
    /\ \E s, t \in 1..Len(span_records) :
          /\ span_records[s].gap_type # span_records[t].gap_type
          /\ span_records[s].word_count >= 2
          /\ GapsWithId(span_records[s].word_ids[2]) # {}

=============================================================================
